---- MODULE Spec2Model ----
(***************************************************************************)
(* Promises, their reactions and the job queue, as the example scripts of  *)
(* the repository use them (ch_promises, ch_async-js, ch_async-functions). *)
(*                                                                         *)
(* A cell is a Promise.  The host runs one task at a time (the script, a   *)
(* timer callback); when the task has finished, the queue of Promise jobs  *)
(* is run, one job to completion after the other.                          *)
(***************************************************************************)
EXTENDS Integers, Sequences, FiniteSets, TLC

VARIABLES cells, reacts, mq, aggs, cur, uncaught, calls,
          iters, location, console, timers, twin

vars == <<cells, reacts, mq, aggs, cur, uncaught, calls,
          iters, location, console, timers, twin>>

\* Bound of the model: the number of Promises the scripts create.
MaxCells == 4

(***************************************************************************)
(* Values.  Every settlement value is tagged, so that a text, a list and a *)
(* reference to a Promise are never confused.                              *)
(***************************************************************************)
Nil == [t |-> "nil", v |-> ""]
Plain(s) == [t |-> "plain", v |-> s]
CellRef(c) == [t |-> "cell", v |-> c]
List(q) == [t |-> "list", v |-> q]
Num(n) == [t |-> "number", v |-> n]
\* { value: x, done: d }
IterationResult(x, d) == [t |-> "step", v |-> [value |-> x, done |-> d]]
\* An AggregateError whose property errors is the Array q.
AggregateError(q) == [t |-> "AggregateError", v |-> q]

\* The element of the Array of Promise.allSettled for an input that has the
\* state st and the settlement value x.
Outcome(st, x) ==
    IF st = "Fulfilled" THEN [status |-> "fulfilled", value |-> x]
    ELSE [status |-> "rejected", reason |-> x]

\* The values the producers of the scripts deliver, and the errors.
Values == {"abc"}
Errors == {"ERROR"}

RECURSIVE Join(_)
\* An Array converted to a string: its elements, separated by commas.
Join(q) ==
    IF Len(q) = 0 THEN ""
    ELSE IF Len(q) = 1 THEN (IF q[1].t = "plain" THEN q[1].v ELSE "[object]")
    ELSE (IF q[1].t = "plain" THEN q[1].v ELSE "[object]") \o "," \o Join(Tail(q))

\* The operand of + converted to a string.
Str(x) ==
    IF x.t = "plain" THEN x.v
    ELSE IF x.t = "list" THEN Join(x.v)
    ELSE IF x.t = "nil" THEN "undefined"
    ELSE "[object]"

\* str + str
Twice(x) == Plain(Str(x) \o Str(x))

(***************************************************************************)
(* Handlers: the callbacks the scripts hand to .then(), .catch() and       *)
(* .finally().                                                             *)
(***************************************************************************)
NoH == [k |-> "none", a |-> Nil]
Ret(s) == [k |-> "ret", a |-> Plain(s)]
RetTwice == [k |-> "twice", a |-> Nil]
Throw(e) == [k |-> "throw", a |-> Plain(e)]
RetCell(c) == [k |-> "cell", a |-> CellRef(c)]
RetFresh == [k |-> "fresh", a |-> Nil]
\* () => { console.log(s); }
Log(s) == [k |-> "log", a |-> Plain(s)]

(***************************************************************************)
(* The statements of the body of an async function at which a segment of   *)
(* it ends: await x, return v, throw e (Ret and Throw as for handlers), and *)
(* return of the value the last await gave.                                *)
(***************************************************************************)
AwaitStep(x) == [k |-> "await", a |-> x]
\* try { await x; ... } catch (e) { ... }
TryAwait(x) == [k |-> "tryawait", a |-> x]
RetGot == [k |-> "retgot", a |-> Nil]
\* await asyncIterator.next(), for iterator it
AwaitNext(it) == [k |-> "awaitnext", a |-> it]

(***************************************************************************)
(* Cells, reactions, jobs.                                                 *)
(***************************************************************************)
\* A new Promise is pending; locked is the alreadyResolved flag of its
\* resolving functions; again records that a resolving function was called
\* once more; timer, that a setTimeout callback of its producer is waiting.
NewCell(kind) ==
    [st |-> "Pending", val |-> Nil, rs |-> <<>>, locked |-> FALSE,
     kind |-> kind, again |-> FALSE, timer |-> FALSE]

SettledCell(kind, st, val) ==
    [st |-> st, val |-> val, rs |-> <<>>, locked |-> TRUE,
     kind |-> kind, again |-> FALSE, timer |-> FALSE]

\* A registered pair of callbacks with the Promise its outcome settles.
\* late: registered on a settled Promise.  What happened to it: fired, the
\* number of its jobs run; arg, the value the job got; ran, the callback that
\* was called; thrown and out, what the callback threw or returned.
Reaction(typ, src, onF, onR, res, idx, late) ==
    [typ |-> typ, src |-> src, onF |-> onF, onR |-> onR, res |-> res,
     idx |-> idx, late |-> late, fired |-> 0, arg |-> Nil, ran |-> "",
     thrown |-> FALSE, out |-> Nil]

ReactionJob(r, st, val) == [k |-> "react", a |-> r, b |-> 0, st |-> st, val |-> val]
ThenableJob(p, x) == [k |-> "thenable", a |-> p, b |-> x, st |-> "", val |-> Nil]

\* The state the operations work on: the Promises, their reactions, the job
\* queue, the combinator calls, the exceptions nobody caught, the calls of
\* async functions, the iterators, the variable location of the generator
\* example, the lines written by console.log, the callbacks handed to
\* setTimeout, and the state of a second run of the script, which the
\* comparison of two runs steps side by side with the first.
World == [cells |-> cells, reacts |-> reacts, mq |-> mq, aggs |-> aggs,
          uncaught |-> uncaught, calls |-> calls, iters |-> iters,
          location |-> location, console |-> console, timers |-> timers,
          twin |-> twin]

Commit(W) ==
    /\ cells' = W.cells
    /\ reacts' = W.reacts
    /\ mq' = W.mq
    /\ aggs' = W.aggs
    /\ uncaught' = W.uncaught
    /\ calls' = W.calls
    /\ iters' = W.iters
    /\ location' = W.location
    /\ console' = W.console
    /\ timers' = W.timers
    /\ twin' = W.twin

\* The reactions of a Promise that has just settled become jobs, the one
\* registered last first.
TriggerReactionsLastFirst(W, rs, st, val) ==
    [W EXCEPT !.mq = @ \o [i \in 1..Len(rs) |->
                              ReactionJob(rs[Len(rs) + 1 - i], st, val)]]

\* The reactions of a Promise that has just settled become jobs, in the
\* order of their registration.
TriggerReactions(W, rs, st, val) ==
    [W EXCEPT !.mq = @ \o [i \in 1..Len(rs) |-> ReactionJob(rs[i], st, val)]]

\* Every combinator call that has Promise c among its inputs notes that c
\* has settled: seen lists the inputs in the order of their settlement.
Seen(ags, c) ==
    [a \in 1..Len(ags) |->
        IF \E i \in 1..Len(ags[a].inputs) : ags[a].inputs[i] = c
        THEN [ags[a] EXCEPT !.seen = Append(@, c)]
        ELSE ags[a]]

\* The state and the settlement value of a pending Promise are set.
SettleCell(W, c, st, val) ==
    TriggerReactions(
        [W EXCEPT !.cells[c].st = st, !.cells[c].val = val, !.cells[c].rs = <<>>,
                  !.aggs = Seen(@, c)],
        W.cells[c].rs, st, val)

FulfillPromise(W, c, v) == SettleCell(W, c, "Fulfilled", v)

RejectPromise(W, c, e) == SettleCell(W, c, "Rejected", e)

\* A resolve(x) that fulfills with whatever it is given, a Promise too.
ResolveFnNoFlatten(W, c, x) ==
    IF W.cells[c].locked THEN W
    ELSE FulfillPromise([W EXCEPT !.cells[c].locked = TRUE], c, x)

\* A resolve(x) that does not look at the alreadyResolved flag.
ResolveFnOverwrite(W, c, x) ==
    LET W1 == [W EXCEPT !.cells[c].locked = TRUE]
    IN IF x.t = "cell"
       THEN IF x.v = c
            THEN RejectPromise(W1, c, Plain("TypeError"))
            ELSE [W1 EXCEPT !.mq = Append(@, ThenableJob(c, x.v))]
       ELSE FulfillPromise(W1, c, x)

\* resolve(x): ignored once the Promise is resolved; a Promise x is
\* followed, any other value fulfills.
ResolveFn(W, c, x) ==
    IF W.cells[c].locked THEN W
    ELSE LET W1 == [W EXCEPT !.cells[c].locked = TRUE]
         IN IF x.t = "cell"
            THEN IF x.v = c
                 THEN RejectPromise(W1, c, Plain("TypeError"))
                 ELSE [W1 EXCEPT !.mq = Append(@, ThenableJob(c, x.v))]
            ELSE FulfillPromise(W1, c, x)

\* A reject(e) that does not look at the alreadyResolved flag.
RejectFnOverwrite(W, c, e) ==
    RejectPromise([W EXCEPT !.cells[c].locked = TRUE], c, e)

\* reject(e): ignored once the Promise is resolved.
RejectFn(W, c, e) ==
    IF W.cells[c].locked THEN W
    ELSE RejectPromise([W EXCEPT !.cells[c].locked = TRUE], c, e)

\* A registration that only keeps the reaction: one that comes after the
\* settlement is never notified.
PerformPromiseThenLost(W, src, r) ==
    [W EXCEPT !.cells[src].rs = Append(@, r)]

\* A registration that calls the callback of a settled Promise at once,
\* inside the call of .then().
PerformPromiseThenSync(W, src, r) ==
    IF W.cells[src].st = "Pending"
    THEN [W EXCEPT !.cells[src].rs = Append(@, r)]
    ELSE LET rc == W.reacts[r]
             h == IF W.cells[src].st = "Fulfilled" THEN rc.onF ELSE rc.onR
             W1 == [W EXCEPT !.reacts[r].fired = @ + 1,
                             !.reacts[r].arg = W.cells[src].val,
                             !.reacts[r].ran = IF h.k = "none" THEN "" ELSE W.cells[src].st,
                             !.reacts[r].out = h.a,
                             !.reacts[r].thrown = (h.k = "throw")]
         IN IF h.k = "throw" THEN RejectFn(W1, rc.res, h.a)
            ELSE IF h.k = "none" THEN SettleCell(W1, rc.res, W.cells[src].st, W.cells[src].val)
            ELSE ResolveFn(W1, rc.res, h.a)

\* A registration that makes a job at once, whether src is settled or not.
PerformPromiseThenAtOnce(W, src, r) ==
    IF W.cells[src].st = "Pending"
    THEN [W EXCEPT !.cells[src].rs = Append(@, r),
                   !.mq = Append(@, ReactionJob(r, "Fulfilled", Nil))]
    ELSE [W EXCEPT !.mq = Append(@, ReactionJob(r, W.cells[src].st, W.cells[src].val))]

\* A registration on a settled Promise whose job goes before the jobs that
\* wait.
PerformPromiseThenFirst(W, src, r) ==
    IF W.cells[src].st = "Pending"
    THEN [W EXCEPT !.cells[src].rs = Append(@, r)]
    ELSE [W EXCEPT !.mq = <<ReactionJob(r, W.cells[src].st, W.cells[src].val)>> \o @]

\* Registration of reaction r on Promise src: kept while src is pending,
\* made a job at once when src is settled.
PerformPromiseThen(W, src, r) ==
    IF W.cells[src].st = "Pending"
    THEN [W EXCEPT !.cells[src].rs = Append(@, r)]
    ELSE [W EXCEPT !.mq = Append(@, ReactionJob(r, W.cells[src].st, W.cells[src].val))]

\* src.then(onF, onR): a new Promise, the last cell of the result.
Then(W, src, onF, onR, kind) ==
    LET res == Len(W.cells) + 1
        r == Len(W.reacts) + 1
        W1 == [W EXCEPT !.cells = Append(@, NewCell(kind)),
                        !.reacts = Append(@, Reaction("then", src, onF, onR, res, 0, W.cells[src].st # "Pending"))]
    IN PerformPromiseThen(W1, src, r)

\* src.finally(h)
Finally(W, src, h) ==
    LET res == Len(W.cells) + 1
        r == Len(W.reacts) + 1
        W1 == [W EXCEPT !.cells = Append(@, NewCell("derived")),
                        !.reacts = Append(@, Reaction("finally", src, h, h, res, 0, W.cells[src].st # "Pending"))]
    IN PerformPromiseThen(W1, src, r)

\* A call of handler h with argument x: what it returns or throws.  A
\* handler that returns Promise.resolve(str + str) creates that Promise.
Call(W, h, x) ==
    IF h.k = "ret" THEN [W |-> W, thrown |-> FALSE, x |-> h.a]
    ELSE IF h.k = "twice" THEN [W |-> W, thrown |-> FALSE, x |-> Twice(x)]
    ELSE IF h.k = "throw" THEN [W |-> W, thrown |-> TRUE, x |-> h.a]
    ELSE IF h.k = "cell" THEN [W |-> W, thrown |-> FALSE, x |-> h.a]
    ELSE IF h.k = "log"
    THEN [W |-> [W EXCEPT !.console = Append(@, h.a)], thrown |-> FALSE, x |-> Nil]
    ELSE [W |-> [W EXCEPT !.cells = Append(@, SettledCell("fresh", "Fulfilled", Twice(x)))],
          thrown |-> FALSE, x |-> CellRef(Len(W.cells) + 1)]

\* A completion that lets the exception of a callback leave the job.
CompleteEscapes(res, o) ==
    IF o.thrown THEN [o.W EXCEPT !.uncaught = Append(@, o.x)]
    ELSE ResolveFn(o.W, res, o.x)

\* The outcome of a handler settles the reaction's Promise: a returned value
\* resolves it, an exception rejects it.
Complete(res, o) ==
    IF o.thrown THEN RejectFn(o.W, res, o.x) ELSE ResolveFn(o.W, res, o.x)

\* A job that keeps the rejection of the source although the .catch()
\* callback has returned.
ThenJobNoRecover(W, r, j) ==
    LET rc == W.reacts[r]
        h == IF j.st = "Fulfilled" THEN rc.onF ELSE rc.onR
    IN IF h.k = "none"
       THEN IF j.st = "Fulfilled" THEN ResolveFn(W, rc.res, j.val)
                                  ELSE RejectFn(W, rc.res, j.val)
       ELSE LET o == Call([W EXCEPT !.reacts[r].ran = j.st], h, j.val)
                o1 == [o EXCEPT !.W.reacts[r].out = o.x,
                                !.W.reacts[r].thrown = o.thrown]
            IN IF j.st = "Rejected" /\ ~o.thrown THEN RejectFn(o1.W, rc.res, j.val)
               ELSE Complete(rc.res, o1)

\* A job that takes a missing callback for one that returns nothing.
ThenJobNoPass(W, r, j) ==
    LET rc == W.reacts[r]
        h == IF j.st = "Fulfilled" THEN rc.onF ELSE rc.onR
    IN IF h.k = "none"
       THEN ResolveFn(W, rc.res, Nil)
       ELSE LET o == Call([W EXCEPT !.reacts[r].ran = j.st], h, j.val)
            IN Complete(rc.res, [o EXCEPT !.W.reacts[r].out = o.x,
                                          !.W.reacts[r].thrown = o.thrown])

\* A job that hands the exception of the fulfillment callback to the
\* rejection callback of the same .then().
ThenJobCatchesOwn(W, r, j) ==
    LET rc == W.reacts[r]
        h == IF j.st = "Fulfilled" THEN rc.onF ELSE rc.onR
    IN IF h.k = "none"
       THEN IF j.st = "Fulfilled" THEN ResolveFn(W, rc.res, j.val)
                                  ELSE RejectFn(W, rc.res, j.val)
       ELSE LET o == Call([W EXCEPT !.reacts[r].ran = j.st], h, j.val)
                o2 == IF j.st = "Fulfilled" /\ o.thrown /\ rc.onR.k # "none"
                      THEN Call([o.W EXCEPT !.reacts[r].ran = "Rejected"], rc.onR, o.x)
                      ELSE o
            IN Complete(rc.res, [o2 EXCEPT !.W.reacts[r].out = o2.x,
                                           !.W.reacts[r].thrown = o2.thrown])

\* The job of a .then() reaction: the handler of the path taken is called; a
\* missing handler passes the outcome on.
ThenJob(W, r, j) ==
    LET rc == W.reacts[r]
        h == IF j.st = "Fulfilled" THEN rc.onF ELSE rc.onR
    IN IF h.k = "none"
       THEN IF j.st = "Fulfilled" THEN ResolveFn(W, rc.res, j.val)
                                  ELSE RejectFn(W, rc.res, j.val)
       ELSE LET o == Call([W EXCEPT !.reacts[r].ran = j.st], h, j.val)
            IN Complete(rc.res, [o EXCEPT !.W.reacts[r].out = o.x,
                                          !.W.reacts[r].thrown = o.thrown])

\* A .finally() job that settles with what its callback returned, as a
\* .then() job does.
FinallyJobAsThen(W, r, j) ==
    LET rc == W.reacts[r]
        o == Call([W EXCEPT !.reacts[r].ran = "finally"], rc.onF, Nil)
    IN Complete(rc.res, [o EXCEPT !.W.reacts[r].out = o.x,
                                  !.W.reacts[r].thrown = o.thrown])

\* A .finally() job that drops the exception of its callback and passes the
\* original outcome on.
FinallyJobIgnoresThrow(W, r, j) ==
    LET rc == W.reacts[r]
        o == Call([W EXCEPT !.reacts[r].ran = "finally"], rc.onF, Nil)
        o1 == [o EXCEPT !.W.reacts[r].out = o.x, !.W.reacts[r].thrown = o.thrown]
        W1 == IF o.x.t = "cell" THEN o1.W
              ELSE [o1.W EXCEPT !.cells =
                       Append(@, SettledCell("internal", "Fulfilled", o.x))]
        p1 == IF o.x.t = "cell" THEN o.x.v ELSE Len(W1.cells)
        thunk == [k |-> IF j.st = "Fulfilled" THEN "ret" ELSE "throw", a |-> j.val]
        W2 == Then(W1, p1, thunk, NoH, "internal")
    IN ResolveFn(W2, rc.res, CellRef(Len(W2.cells)))

\* The job of a .finally() reaction: the handler is called without argument;
\* if it throws, its exception rejects; otherwise its result is awaited and
\* then the original outcome is passed on.
FinallyJob(W, r, j) ==
    LET rc == W.reacts[r]
        o == Call([W EXCEPT !.reacts[r].ran = "finally"], rc.onF, Nil)
        o1 == [o EXCEPT !.W.reacts[r].out = o.x, !.W.reacts[r].thrown = o.thrown]
    IN IF o.thrown THEN RejectFn(o1.W, rc.res, o.x)
       ELSE LET W1 == IF o.x.t = "cell" THEN o1.W
                      ELSE [o1.W EXCEPT !.cells =
                               Append(@, SettledCell("internal", "Fulfilled", o.x))]
                p1 == IF o.x.t = "cell" THEN o.x.v ELSE Len(W1.cells)
                thunk == [k |-> IF j.st = "Fulfilled" THEN "ret" ELSE "throw", a |-> j.val]
                W2 == Then(W1, p1, thunk, NoH, "internal")
            IN ResolveFn(W2, rc.res, CellRef(Len(W2.cells)))

RECURSIVE Ascending(_)
\* The Promises of S in the order of their creation.
Ascending(S) ==
    IF S = {} THEN <<>>
    ELSE LET m == CHOOSE x \in S : \A y \in S : x <= y
         IN <<m>> \o Ascending(S \ {m})

\* The inputs that are settled when the combinator is called.  The script
\* made them with Promise.resolve() and Promise.reject(): each was settled
\* when it was created, so they settled in the order of their creation.
Early(W, inputs) ==
    Ascending({inputs[i] : i \in {k \in 1..Len(inputs) :
                                     W.cells[inputs[k]].st # "Pending"}})

\* The state of one call of a combinator: the Promise it returned, the input
\* Promises, the values collected so far, the number of inputs awaited (and
\* one for the call itself while it registers), and the order in which the
\* inputs delivered; early and seen, the inputs that settled before and after
\* the call, in the order of their settlement.
Aggregate(policy, out, inputs) ==
    [policy |-> policy, out |-> out, inputs |-> inputs,
     vals |-> [i \in 1..Len(inputs) |-> Nil], remaining |-> 1, order |-> <<>>,
     early |-> <<>>, seen |-> <<>>]

AggOf(W, c) == CHOOSE a \in 1..Len(W.aggs) : W.aggs[a].out = c

RECURSIVE AllLoop(_, _, _)
\* Promise.all: from input i on, each input is awaited and gets a reaction
\* that delivers to index i.
AllLoop(W, a, i) ==
    IF i > Len(W.aggs[a].inputs) THEN W
    ELSE LET r == Len(W.reacts) + 1
             src == W.aggs[a].inputs[i]
             W1 == [W EXCEPT !.aggs[a].remaining = @ + 1,
                             !.reacts = Append(@, Reaction("all", src, NoH, NoH,
                                                  W.aggs[a].out, i,
                                                  W.cells[src].st # "Pending"))]
         IN AllLoop(PerformPromiseThen(W1, src, r), a, i + 1)

\* A Promise.all that leaves the fulfillment of its result to the jobs of
\* its inputs.
AllLeftToJobs(W, inputs) ==
    LET res == Len(W.cells) + 1
        a == Len(W.aggs) + 1
        W1 == [W EXCEPT !.cells = Append(@, NewCell("derived")),
                        !.aggs = Append(@, [Aggregate("all", res, inputs)
                                               EXCEPT !.early = Early(W, inputs)])]
        W2 == AllLoop(W1, a, 1)
    IN [W2 EXCEPT !.aggs[a].remaining = @ - 1]

\* Promise.all(inputs): a new Promise, the last cell of the result; with no
\* input it is fulfilled at once with an empty Array.
All(W, inputs) ==
    LET res == Len(W.cells) + 1
        a == Len(W.aggs) + 1
        W1 == [W EXCEPT !.cells = Append(@, NewCell("derived")),
                        !.aggs = Append(@, [Aggregate("all", res, inputs)
                                               EXCEPT !.early = Early(W, inputs)])]
        W2 == AllLoop(W1, a, 1)
        W3 == [W2 EXCEPT !.aggs[a].remaining = @ - 1]
    IN IF W3.aggs[a].remaining = 0 THEN ResolveFn(W3, res, List(W3.aggs[a].vals))
       ELSE W3

\* A Promise.all job that collects the values in the order of their arrival.
AllJobInArrivalOrder(W, r, j) ==
    LET rc == W.reacts[r]
        a == AggOf(W, rc.res)
    IN IF j.st = "Rejected" THEN RejectFn(W, rc.res, j.val)
       ELSE IF rc.fired > 1 THEN W
       ELSE LET W1 == [W EXCEPT !.aggs[a].vals[Len(W.aggs[a].order) + 1] = j.val,
                                !.aggs[a].remaining = @ - 1,
                                !.aggs[a].order = Append(@, rc.idx)]
            IN IF W1.aggs[a].remaining = 0
               THEN ResolveFn(W1, rc.res, List(W1.aggs[a].vals))
               ELSE W1

\* A Promise.all job that lets every rejection settle the result, a later one
\* too.
AllJobKeepsLastError(W, r, j) ==
    LET rc == W.reacts[r]
        a == AggOf(W, rc.res)
    IN IF j.st = "Rejected" THEN RejectFnOverwrite(W, rc.res, j.val)
       ELSE IF rc.fired > 1 THEN W
       ELSE LET W1 == [W EXCEPT !.aggs[a].vals[rc.idx] = j.val,
                                !.aggs[a].remaining = @ - 1,
                                !.aggs[a].order = Append(@, rc.idx)]
            IN IF W1.aggs[a].remaining = 0
               THEN ResolveFn(W1, rc.res, List(W1.aggs[a].vals))
               ELSE W1

\* The job of a Promise.all reaction: a rejection rejects the result; a
\* fulfillment is stored at the index of its input, and the last one
\* fulfills the result with the Array of the values.
AllJob(W, r, j) ==
    LET rc == W.reacts[r]
        a == AggOf(W, rc.res)
    IN IF j.st = "Rejected" THEN RejectFn(W, rc.res, j.val)
       ELSE IF rc.fired > 1 THEN W
       ELSE LET W1 == [W EXCEPT !.aggs[a].vals[rc.idx] = j.val,
                                !.aggs[a].remaining = @ - 1,
                                !.aggs[a].order = Append(@, rc.idx)]
            IN IF W1.aggs[a].remaining = 0
               THEN ResolveFn(W1, rc.res, List(W1.aggs[a].vals))
               ELSE W1

RECURSIVE CombLoop(_, _, _)
\* Promise.race, Promise.any, Promise.allSettled: from input i on, each input
\* is awaited and gets a reaction of the combinator, for index i.
CombLoop(W, a, i) ==
    IF i > Len(W.aggs[a].inputs) THEN W
    ELSE LET r == Len(W.reacts) + 1
             src == W.aggs[a].inputs[i]
             W1 == [W EXCEPT !.aggs[a].remaining = @ + 1,
                             !.reacts = Append(@, Reaction(W.aggs[a].policy, src,
                                                  NoH, NoH, W.aggs[a].out, i,
                                                  W.cells[src].st # "Pending"))]
         IN CombLoop(PerformPromiseThen(W1, src, r), a, i + 1)

\* A Promise.race that treats no input as Promise.all does: fulfilled with
\* an empty Array.
RaceEmptyFulfils(W, inputs) ==
    LET res == Len(W.cells) + 1
        a == Len(W.aggs) + 1
        W1 == [W EXCEPT !.cells = Append(@, NewCell("derived")),
                        !.aggs = Append(@, [Aggregate("race", res, inputs)
                                               EXCEPT !.early = Early(W, inputs)])]
        W2 == CombLoop(W1, a, 1)
    IN IF Len(inputs) = 0 THEN ResolveFn(W2, res, List(<<>>)) ELSE W2

\* Promise.race(inputs): a new Promise, the last cell of the result; with no
\* input nothing ever settles it.
Race(W, inputs) ==
    LET res == Len(W.cells) + 1
        a == Len(W.aggs) + 1
        W1 == [W EXCEPT !.cells = Append(@, NewCell("derived")),
                        !.aggs = Append(@, [Aggregate("race", res, inputs)
                                               EXCEPT !.early = Early(W, inputs)])]
    IN CombLoop(W1, a, 1)

\* A Promise.race job that settles the result whatever settled it before.
RaceJobLastWins(W, r, j) ==
    SettleCell([W EXCEPT !.aggs[AggOf(W, W.reacts[r].res)].order =
                             Append(@, W.reacts[r].idx)],
               W.reacts[r].res, j.st, j.val)

\* The job of a Promise.race reaction: the resolving functions of the result
\* are called with the outcome of the input.
RaceJob(W, r, j) ==
    LET rc == W.reacts[r]
        W1 == [W EXCEPT !.aggs[AggOf(W, rc.res)].order = Append(@, rc.idx)]
    IN IF j.st = "Fulfilled" THEN ResolveFn(W1, rc.res, j.val)
       ELSE RejectFn(W1, rc.res, j.val)

\* A Promise.any that leaves the rejection of its result to the jobs of its
\* inputs.
PromiseAnyLeftToJobs(W, inputs) ==
    LET res == Len(W.cells) + 1
        a == Len(W.aggs) + 1
        W1 == [W EXCEPT !.cells = Append(@, NewCell("derived")),
                        !.aggs = Append(@, [Aggregate("any", res, inputs)
                                               EXCEPT !.early = Early(W, inputs)])]
        W2 == CombLoop(W1, a, 1)
    IN [W2 EXCEPT !.aggs[a].remaining = @ - 1]

\* Promise.any(inputs): a new Promise, the last cell of the result; with no
\* input it is rejected at once, with an AggregateError without errors.
PromiseAny(W, inputs) ==
    LET res == Len(W.cells) + 1
        a == Len(W.aggs) + 1
        W1 == [W EXCEPT !.cells = Append(@, NewCell("derived")),
                        !.aggs = Append(@, [Aggregate("any", res, inputs)
                                               EXCEPT !.early = Early(W, inputs)])]
        W2 == CombLoop(W1, a, 1)
        W3 == [W2 EXCEPT !.aggs[a].remaining = @ - 1]
    IN IF W3.aggs[a].remaining = 0
       THEN RejectFn(W3, res, AggregateError(W3.aggs[a].vals))
       ELSE W3

\* A Promise.any job that rejects the result with the first rejection, as a
\* Promise.all job does.
AnyJobRejectsAtOnce(W, r, j) ==
    IF j.st = "Fulfilled" THEN ResolveFn(W, W.reacts[r].res, j.val)
    ELSE RejectFn(W, W.reacts[r].res, j.val)

\* A Promise.any job that collects the errors in the order of their arrival.
AnyJobInArrivalOrder(W, r, j) ==
    LET rc == W.reacts[r]
        a == AggOf(W, rc.res)
    IN IF j.st = "Fulfilled" THEN ResolveFn(W, rc.res, j.val)
       ELSE IF rc.fired > 1 THEN W
       ELSE LET W1 == [W EXCEPT !.aggs[a].vals[Len(W.aggs[a].order) + 1] = j.val,
                                !.aggs[a].remaining = @ - 1,
                                !.aggs[a].order = Append(@, rc.idx)]
            IN IF W1.aggs[a].remaining = 0
               THEN RejectFn(W1, rc.res, AggregateError(W1.aggs[a].vals))
               ELSE W1

\* The job of a Promise.any reaction: a fulfillment resolves the result; a
\* rejection is stored at the index of its input, and the last one rejects
\* the result with an AggregateError of the errors.
AnyJob(W, r, j) ==
    LET rc == W.reacts[r]
        a == AggOf(W, rc.res)
    IN IF j.st = "Fulfilled" THEN ResolveFn(W, rc.res, j.val)
       ELSE IF rc.fired > 1 THEN W
       ELSE LET W1 == [W EXCEPT !.aggs[a].vals[rc.idx] = j.val,
                                !.aggs[a].remaining = @ - 1,
                                !.aggs[a].order = Append(@, rc.idx)]
            IN IF W1.aggs[a].remaining = 0
               THEN RejectFn(W1, rc.res, AggregateError(W1.aggs[a].vals))
               ELSE W1

\* Promise.allSettled(inputs): a new Promise, the last cell of the result;
\* with no input it is fulfilled at once with an empty Array.
AllSettled(W, inputs) ==
    LET res == Len(W.cells) + 1
        a == Len(W.aggs) + 1
        W1 == [W EXCEPT !.cells = Append(@, NewCell("derived")),
                        !.aggs = Append(@, [Aggregate("allSettled", res, inputs)
                                               EXCEPT !.early = Early(W, inputs)])]
        W2 == CombLoop(W1, a, 1)
        W3 == [W2 EXCEPT !.aggs[a].remaining = @ - 1]
    IN IF W3.aggs[a].remaining = 0 THEN ResolveFn(W3, res, List(W3.aggs[a].vals))
       ELSE W3

\* A Promise.allSettled job that rejects the result with a rejection, as a
\* Promise.all job does.
AllSettledJobAsAll(W, r, j) ==
    LET rc == W.reacts[r]
        a == AggOf(W, rc.res)
    IN IF j.st = "Rejected" THEN RejectFn(W, rc.res, j.val)
       ELSE IF rc.fired > 1 THEN W
       ELSE LET W1 == [W EXCEPT !.aggs[a].vals[rc.idx] = Outcome(j.st, j.val),
                                !.aggs[a].remaining = @ - 1,
                                !.aggs[a].order = Append(@, rc.idx)]
            IN IF W1.aggs[a].remaining = 0
               THEN ResolveFn(W1, rc.res, List(W1.aggs[a].vals))
               ELSE W1

\* The job of a Promise.allSettled reaction: the outcome of the input,
\* fulfilled or rejected, is stored at the index of the input, and the last
\* one fulfills the result with the Array of the outcomes.
AllSettledJob(W, r, j) ==
    LET rc == W.reacts[r]
        a == AggOf(W, rc.res)
    IN IF rc.fired > 1 THEN W
       ELSE LET W1 == [W EXCEPT !.aggs[a].vals[rc.idx] = Outcome(j.st, j.val),
                                !.aggs[a].remaining = @ - 1,
                                !.aggs[a].order = Append(@, rc.idx)]
            IN IF W1.aggs[a].remaining = 0
               THEN ResolveFn(W1, rc.res, List(W1.aggs[a].vals))
               ELSE W1

\* The job of the reaction by which Promise res follows Promise src.
AdoptJob(W, r, j) == SettleCell(W, W.reacts[r].res, j.st, j.val)

(***************************************************************************)
(* Iteration (ch_sync-iteration, the generator genFunc3, the asynchronous  *)
(* generators syncToAsyncIterable and yield123).  An iterator records in   *)
(* results what each call of its .next() returned.                         *)
(***************************************************************************)
\* iterable[Symbol.iterator]() of an Array: the iterator is at index 0.
ArrayIterator(items) ==
    [kind |-> "array", items |-> items, nextIndex |-> 0, done |-> FALSE,
     results |-> <<>>]

\* A .next() that goes back to the first element once it has reported the
\* end of the Array.
ArrayNextRestarts(W, it) ==
    LET o == W.iters[it]
    IN IF o.nextIndex >= Len(o.items)
       THEN [W EXCEPT !.iters[it].nextIndex = 0,
                      !.iters[it].results = Append(@, IterationResult(Nil, TRUE))]
       ELSE [W EXCEPT !.iters[it].nextIndex = @ + 1,
                      !.iters[it].results =
                          Append(@, IterationResult(o.items[o.nextIndex + 1], FALSE))]

\* iterator.next() of an Array iterator: the element at the index, and the
\* index moves on; past the last element the iterator is exhausted for good
\* and the result is { value: undefined, done: true }.
ArrayNext(W, it) ==
    LET o == W.iters[it]
    IN IF o.done \/ o.nextIndex >= Len(o.items)
       THEN [W EXCEPT !.iters[it].done = TRUE,
                      !.iters[it].results = Append(@, IterationResult(Nil, TRUE))]
       ELSE [W EXCEPT !.iters[it].nextIndex = @ + 1,
                      !.iters[it].results =
                          Append(@, IterationResult(o.items[o.nextIndex + 1], FALSE))]

\* The statements of the body of a generator: console.log(s) (Log, as for
\* handlers), location = n, yield x.
SetLocation(n) == [k |-> "location", a |-> n]
Yield(x) == [k |-> "yield", a |-> Plain(x)]

\* function* genFunc3() { ... }
genFunc3 ==
    <<Log("<1>"), SetLocation(1), Yield("a"),
      Log("<2>"), SetLocation(2), Yield("b"),
      Log("<3>"), SetLocation(3)>>

\* genFunc3(): a generator object whose body has not started; pc is the
\* statement at which the body goes on.
Generator(body) ==
    [kind |-> "generator", body |-> body, pc |-> 1, state |-> "suspendedStart",
     results |-> <<>>]

RECURSIVE GeneratorResumeToEnd(_, _)
\* A body that does not stop at a yield: it runs to its end, and the result
\* of .next() is that of the end.
GeneratorResumeToEnd(W, it) ==
    LET o == W.iters[it]
    IN IF o.pc > Len(o.body)
       THEN [W EXCEPT !.iters[it].state = "completed",
                      !.iters[it].results = Append(@, IterationResult(Nil, TRUE))]
       ELSE LET step == o.body[o.pc]
                W1 == [W EXCEPT !.iters[it].pc = @ + 1]
            IN IF step.k = "yield" THEN GeneratorResumeToEnd(W1, it)
               ELSE IF step.k = "location"
               THEN GeneratorResumeToEnd([W1 EXCEPT !.location = step.a], it)
               ELSE GeneratorResumeToEnd([W1 EXCEPT !.console = Append(@, step.a)], it)

RECURSIVE GeneratorResume(_, _)
\* The body of generator it runs from the statement it goes on at up to the
\* next yield, whose operand is the value of the result, or to its end,
\* where the generator is completed.
GeneratorResume(W, it) ==
    LET o == W.iters[it]
    IN IF o.pc > Len(o.body)
       THEN [W EXCEPT !.iters[it].state = "completed",
                      !.iters[it].results = Append(@, IterationResult(Nil, TRUE))]
       ELSE LET step == o.body[o.pc]
                W1 == [W EXCEPT !.iters[it].pc = @ + 1]
            IN IF step.k = "yield"
               THEN [W1 EXCEPT !.iters[it].state = "suspendedYield",
                               !.iters[it].results =
                                   Append(@, IterationResult(step.a, FALSE))]
               ELSE IF step.k = "location"
               THEN GeneratorResume([W1 EXCEPT !.location = step.a], it)
               ELSE GeneratorResume([W1 EXCEPT !.console = Append(@, step.a)], it)

\* iter.next() of a generator object: a completed generator gives
\* { value: undefined, done: true }; any other is resumed.
GeneratorNext(W, it) ==
    IF W.iters[it].state = "completed"
    THEN [W EXCEPT !.iters[it].results = Append(@, IterationResult(Nil, TRUE))]
    ELSE GeneratorResume(W, it)

\* syncToAsyncIterable(items), yield123(): an async generator object whose
\* body, a loop over items with one yield for each, has not started.  queue
\* holds the Promises of the calls of .next() that are not answered yet;
\* results, the Promises the calls returned.
AsyncGenerator(items) ==
    [kind |-> "asyncgenerator", items |-> items, nextIndex |-> 0,
     state |-> "suspendedStart", queue |-> <<>>, results |-> <<>>]

\* The operand of yield is awaited: a reaction on it resumes the generator.
AsyncGeneratorAwait(W, it, x) ==
    LET W1 == [W EXCEPT !.cells = Append(@, SettledCell("internal", "Fulfilled", x))]
        p == Len(W1.cells)
        r == Len(W1.reacts) + 1
        W2 == [W1 EXCEPT !.reacts = Append(@, Reaction("yield", p, NoH, NoH, 0, it, TRUE))]
    IN PerformPromiseThen(W2, p, r)

\* An answer that goes to the last call of .next() that waits.
AsyncGeneratorCompleteStepLast(W, it, x, d) ==
    LET q == W.iters[it].queue
        p == q[Len(q)]
    IN ResolveFn([W EXCEPT !.iters[it].queue = SubSeq(q, 1, Len(q) - 1)], p,
                 IterationResult(x, d))

\* The first call of .next() that waits is answered: its Promise is
\* resolved with { value: x, done: d }.
AsyncGeneratorCompleteStep(W, it, x, d) ==
    LET p == Head(W.iters[it].queue)
    IN ResolveFn([W EXCEPT !.iters[it].queue = Tail(@)], p, IterationResult(x, d))

RECURSIVE AsyncGeneratorDrainQueue(_, _)
\* A completed generator answers every call that waits with
\* { value: undefined, done: true }.
AsyncGeneratorDrainQueue(W, it) ==
    IF W.iters[it].queue = <<>> THEN W
    ELSE AsyncGeneratorDrainQueue(AsyncGeneratorCompleteStep(W, it, Nil, TRUE), it)

\* The body goes on: the loop reaches the yield of its next element, whose
\* operand is awaited, or ends, and the generator is completed.
AsyncGeneratorResume(W, it) ==
    LET o == W.iters[it]
    IN IF o.nextIndex < Len(o.items)
       THEN AsyncGeneratorAwait([W EXCEPT !.iters[it].state = "executing",
                                          !.iters[it].nextIndex = @ + 1],
                                it, o.items[o.nextIndex + 1])
       ELSE AsyncGeneratorDrainQueue([W EXCEPT !.iters[it].state = "completed"], it)

\* The job of the await of a yield: the value is the answer to the first
\* call that waits; the body goes on at once if another call waits, and is
\* suspended at the yield otherwise.
YieldJob(W, r, j) ==
    LET it == W.reacts[r].idx
        W1 == AsyncGeneratorCompleteStep(W, it, j.val, FALSE)
    IN IF W1.iters[it].queue # <<>> THEN AsyncGeneratorResume(W1, it)
       ELSE [W1 EXCEPT !.iters[it].state = "suspendedYield"]

\* asyncIterator.next(): a new Promise, which is returned; a completed
\* generator answers at once, a suspended one is resumed, and one that is
\* executing finds the call in its queue later.
AsyncGeneratorNext(W, it) ==
    LET p == Len(W.cells) + 1
        o == W.iters[it]
        W1 == [W EXCEPT !.cells = Append(@, NewCell("derived")),
                        !.iters[it].results = Append(@, p)]
        W2 == [W1 EXCEPT !.iters[it].queue = Append(@, p)]
    IN IF o.state = "completed"
       THEN ResolveFn(W1, p, IterationResult(Nil, TRUE))
       ELSE IF o.state = "executing" THEN W2
       ELSE AsyncGeneratorResume(W2, it)

\* One call of an async function: the Promise it returned, its body, the
\* statement at which it goes on, the number of segments of the body that have
\* run, the Promise it is paused on (0: none), the values the awaits gave,
\* the number of times it was resumed, the exceptions its catch blocks
\* received, and the number of times the code that follows an await in its
\* statement was reached.
Invocation(out, body) ==
    [out |-> out, body |-> body, pc |-> 1, segments |-> 0, waits |-> 0,
     got |-> <<>>, resumed |-> 0, caught |-> <<>>, passed |-> 0]

\* await x in call i: x, if it is not a Promise, is wrapped in a fulfilled
\* one; the function is paused and returned from, and a reaction on the
\* Promise resumes it.
AwaitPause(W, i, x) ==
    LET W1 == IF x.t = "cell" THEN W
              ELSE [W EXCEPT !.cells = Append(@, SettledCell("internal", "Fulfilled", x))]
        p == IF x.t = "cell" THEN x.v ELSE Len(W1.cells)
        r == Len(W1.reacts) + 1
        W2 == [W1 EXCEPT !.reacts = Append(@, Reaction("await", p, NoH, NoH,
                                              W.calls[i].out, i,
                                              W1.cells[p].st # "Pending")),
                         !.calls[i].waits = p,
                         !.calls[i].pc = @ + 1]
    IN PerformPromiseThen(W2, p, r)

\* An end of call i that lets an exception thrown before the first await
\* leave the call, as the exception of an ordinary function does.
FinishRaises(W, i, thrown, x) ==
    LET W1 == [W EXCEPT !.calls[i].pc = Len(W.calls[i].body) + 1]
    IN IF thrown
       THEN IF W.calls[i].resumed = 0
            THEN [W1 EXCEPT !.uncaught = Append(@, x)]
            ELSE RejectFn(W1, W.calls[i].out, x)
       ELSE ResolveFn(W1, W.calls[i].out, x)

\* The end of call i: its Promise is resolved with the value returned, or
\* rejected with the exception thrown.
Finish(W, i, thrown, x) ==
    LET W1 == [W EXCEPT !.calls[i].pc = Len(W.calls[i].body) + 1]
    IN IF thrown THEN RejectFn(W1, W.calls[i].out, x)
       ELSE ResolveFn(W1, W.calls[i].out, x)

RECURSIVE RunSegmentNoPause(_, _)
\* A segment that does not pause at an await whose operand is not a pending
\* Promise, and goes on with the statements after it at once.
RunSegmentNoPause(W, i) ==
    LET c == W.calls[i]
        step == c.body[c.pc]
        W0 == [W EXCEPT !.calls[i].segments = @ + 1]
    IN IF step.k \in {"await", "tryawait"}
       THEN IF step.a.t = "cell" /\ W.cells[step.a.v].st # "Fulfilled"
            THEN AwaitPause(W0, i, step.a)
            ELSE RunSegmentNoPause(
                     [W0 EXCEPT !.calls[i].pc = @ + 1,
                                !.calls[i].got =
                                    Append(@, IF step.a.t = "cell"
                                              THEN W.cells[step.a.v].val
                                              ELSE step.a)], i)
       ELSE IF step.k = "throw" THEN Finish(W0, i, TRUE, step.a)
       ELSE IF step.k = "retgot"
            THEN Finish(W0, i, FALSE,
                        IF c.got = <<>> THEN Nil ELSE c.got[Len(c.got)])
       ELSE Finish(W0, i, FALSE, step.a)

\* The segment of call i from the statement it goes on at: up to the next
\* await, where it pauses, or to the return or throw that ends the call.
RunSegment(W, i) ==
    LET c == W.calls[i]
        step == c.body[c.pc]
        W0 == [W EXCEPT !.calls[i].segments = @ + 1]
    IN IF step.k \in {"await", "tryawait"} THEN AwaitPause(W0, i, step.a)
       ELSE IF step.k = "awaitnext"
       THEN AwaitPause(AsyncGeneratorNext(W0, step.a), i, CellRef(Len(W0.cells) + 1))
       ELSE IF step.k = "throw" THEN Finish(W0, i, TRUE, step.a)
       ELSE IF step.k = "retgot"
            THEN Finish(W0, i, FALSE,
                        IF c.got = <<>> THEN Nil ELSE c.got[Len(c.got)])
       ELSE Finish(W0, i, FALSE, step.a)

\* The call of an async function: a new Promise, the last cell of the
\* result, is its result; the body is started inside the call.
StartAsync(W, body) ==
    LET res == Len(W.cells) + 1
        i == Len(W.calls) + 1
        W1 == [W EXCEPT !.cells = Append(@, NewCell("derived")),
                        !.calls = Append(@, Invocation(res, body))]
    IN RunSegment(W1, i)

\* An await job that lets a rejection end the call although the await is
\* inside a try statement.
AwaitJobNoCatch(W, r, j) ==
    LET i == W.reacts[r].idx
        W1 == [W EXCEPT !.calls[i].waits = 0, !.calls[i].resumed = @ + 1]
    IN IF j.st = "Fulfilled"
       THEN RunSegment([W1 EXCEPT !.calls[i].got = Append(@, j.val),
                                  !.calls[i].passed = @ + 1], i)
       ELSE Finish([W1 EXCEPT !.calls[i].segments = @ + 1], i, TRUE, j.val)

\* The job of the reaction of an await: the function is resumed; a
\* fulfillment value is the value of the await, and the next segment runs; a
\* rejection value is thrown by the await: the catch block of its try
\* statement receives it, the rest of the try block is skipped and the
\* function goes on after the statement; without a try statement it ends the
\* call.
AwaitJob(W, r, j) ==
    LET i == W.reacts[r].idx
        step == W.calls[i].body[W.calls[i].pc - 1]
        W1 == [W EXCEPT !.calls[i].waits = 0, !.calls[i].resumed = @ + 1]
    IN IF j.st = "Fulfilled"
       THEN RunSegment([W1 EXCEPT !.calls[i].got = Append(@, j.val),
                                  !.calls[i].passed = @ + 1], i)
       ELSE IF step.k = "tryawait"
       THEN RunSegment([W1 EXCEPT !.calls[i].caught = Append(@, j.val)], i)
       ELSE Finish([W1 EXCEPT !.calls[i].segments = @ + 1], i, TRUE, j.val)

\* One reaction job.
RunReaction(W, j) ==
    LET r == j.a
        W0 == [W EXCEPT !.reacts[r].fired = @ + 1, !.reacts[r].arg = j.val]
        typ == W.reacts[r].typ
    IN IF typ = "then" THEN ThenJob(W0, r, j)
       ELSE IF typ = "finally" THEN FinallyJob(W0, r, j)
       ELSE IF typ = "all" THEN AllJob(W0, r, j)
       ELSE IF typ = "race" THEN RaceJob(W0, r, j)
       ELSE IF typ = "any" THEN AnyJob(W0, r, j)
       ELSE IF typ = "allSettled" THEN AllSettledJob(W0, r, j)
       ELSE IF typ = "await" THEN AwaitJob(W0, r, j)
       ELSE IF typ = "yield" THEN YieldJob(W0, r, j)
       ELSE AdoptJob(W0, r, j)

\* The job that makes Promise p follow Promise x: a reaction registered on x.
RunThenable(W, j) ==
    LET r == Len(W.reacts) + 1
        W1 == [W EXCEPT !.reacts = Append(@, Reaction("adopt", j.b, NoH, NoH, j.a, 0, W.cells[j.b].st # "Pending"))]
    IN PerformPromiseThen(W1, j.b, r)

\* The head of the job queue is removed and run to completion.
RunHead(W) ==
    LET j == Head(W.mq)
        W1 == [W EXCEPT !.mq = Tail(@)]
    IN IF j.k = "react" THEN RunReaction(W1, j) ELSE RunThenable(W1, j)

(***************************************************************************)
(* The script's operations.                                                *)
(***************************************************************************)
\* The Promises the scripts hold.
UserCells == {c \in 1..Len(cells) : cells[c].kind \in {"producer", "derived"}}

Producers == {c \in 1..Len(cells) : cells[c].kind = "producer"}

InTask == cur = "task"

CanCreate == InTask /\ Cardinality(UserCells) < MaxCells

\* new Promise((resolve, reject) => setTimeout(() => ..., 100)): the executor
\* leaves the Promise pending and a timer waiting.
NewPromise ==
    /\ CanCreate
    /\ Commit([World EXCEPT !.cells =
                  Append(@, [NewCell("producer") EXCEPT !.timer = TRUE])])
    /\ UNCHANGED cur

\* Promise.resolve(v)
PromiseResolve(v) ==
    /\ CanCreate
    /\ Commit([World EXCEPT !.cells =
                  Append(@, SettledCell("producer", "Fulfilled", Plain(v)))])
    /\ UNCHANGED cur

\* Promise.reject(e)
PromiseReject(e) ==
    /\ CanCreate
    /\ Commit([World EXCEPT !.cells =
                  Append(@, SettledCell("producer", "Rejected", Plain(e)))])
    /\ UNCHANGED cur

\* A call of a resolving function of c notes a repeated call.
Noted(W, c) == [W EXCEPT !.cells[c].again = W.cells[c].locked]

\* resolve(v), called by the producer of c
Resolve(c, v) ==
    /\ InTask
    /\ c \in Producers
    /\ Commit(ResolveFn(Noted(World, c), c, Plain(v)))
    /\ UNCHANGED cur

\* reject(e), called by the producer of c
Reject(c, e) ==
    /\ InTask
    /\ c \in Producers
    /\ Commit(RejectFn(Noted(World, c), c, Plain(e)))
    /\ UNCHANGED cur

\* c.then(onF, onR); c.catch(onR) is c.then(undefined, onR)
ThenCall(c, onF, onR) ==
    /\ CanCreate
    /\ c \in UserCells
    /\ Commit(Then(World, c, onF, onR, "derived"))
    /\ UNCHANGED cur

\* c.finally(h)
FinallyCall(c, h) ==
    /\ CanCreate
    /\ c \in UserCells
    /\ Commit(Finally(World, c, h))
    /\ UNCHANGED cur

RECURSIVE Orders(_)
\* The Arrays that hold each Promise of S once.
Orders(S) ==
    IF S = {} THEN {<<>>}
    ELSE UNION {{<<x>> \o q : q \in Orders(S \ {x})} : x \in S}

\* The Arrays of producers' Promises the script can hand to a combinator.
InputLists == UNION {Orders(S) : S \in SUBSET Producers}

\* Promise.all(inputs)
AllCall(inputs) ==
    /\ CanCreate
    /\ Commit(All(World, inputs))
    /\ UNCHANGED cur

\* Promise.race(inputs)
RaceCall(inputs) ==
    /\ CanCreate
    /\ Commit(Race(World, inputs))
    /\ UNCHANGED cur

\* Promise.any(inputs)
AnyCall(inputs) ==
    /\ CanCreate
    /\ Commit(PromiseAny(World, inputs))
    /\ UNCHANGED cur

\* Promise.allSettled(inputs)
AllSettledCall(inputs) ==
    /\ CanCreate
    /\ Commit(AllSettled(World, inputs))
    /\ UNCHANGED cur

\* asyncFunc(): the call of an async function with the given body
AsyncCall(body) ==
    /\ CanCreate
    /\ Commit(StartAsync(World, body))
    /\ UNCHANGED cur

\* Bounds of the model: the number of iterators the scripts create, and the
\* number of calls of .next() on one iterator.
MaxIters == 2
MaxPulls == 4

Iters == 1..Len(iters)

CanIterate == InTask /\ Len(iters) < MaxIters

\* const iterator = iterable[Symbol.iterator]()
GetIterator(items) ==
    /\ CanIterate
    /\ Commit([World EXCEPT !.iters = Append(@, ArrayIterator(items))])
    /\ UNCHANGED cur

\* iterator.next()
NextCall(it) ==
    /\ InTask
    /\ it \in Iters
    /\ iters[it].kind = "array"
    /\ Len(iters[it].results) < MaxPulls
    /\ Commit(ArrayNext(World, it))
    /\ UNCHANGED cur

\* const iter = genFunc3()
GeneratorCall(body) ==
    /\ CanIterate
    /\ Commit([World EXCEPT !.iters = Append(@, Generator(body))])
    /\ UNCHANGED cur

\* iter.next()
GeneratorNextCall(it) ==
    /\ InTask
    /\ it \in Iters
    /\ iters[it].kind = "generator"
    /\ Len(iters[it].results) < MaxPulls
    /\ Commit(GeneratorNext(World, it))
    /\ UNCHANGED cur

\* syncToAsyncIterable(items)[Symbol.asyncIterator](), and the same of
\* yield123()
AsyncGeneratorCall(items) ==
    /\ CanIterate
    /\ Commit([World EXCEPT !.iters = Append(@, AsyncGenerator(items))])
    /\ UNCHANGED cur

\* asyncIterator.next(), called by the script, which does not await the
\* result
AsyncNextCall(it) ==
    /\ CanCreate
    /\ it \in Iters
    /\ iters[it].kind = "asyncgenerator"
    /\ Len(iters[it].results) < MaxPulls
    /\ Commit(AsyncGeneratorNext(World, it))
    /\ UNCHANGED cur

\* The body of f and of the async arrow function: one
\* await asyncIterator.next() for each element and one for the end.
Consumer(it) ==
    [k \in 1..(Len(iters[it].items) + 1) |-> AwaitNext(it)] \o <<Ret("undefined")>>

\* f(), for an iterator nobody has called yet
ConsumerCall(it) ==
    /\ it \in Iters
    /\ iters[it].kind = "asyncgenerator"
    /\ iters[it].results = <<>>
    /\ AsyncCall(Consumer(it))

\* Bounds of the model: the number of lines the script writes, and the
\* number of its calls of setTimeout.
MaxLines == 3
MaxTimers == 2

\* The lines the script has written itself.
ScriptLines == {i \in 1..Len(console) : console[i] # Plain("callback")
                                         /\ console[i] # Plain(".then()")}

\* console.log(s), called by the script
LogCall(s) ==
    /\ InTask
    /\ Cardinality(ScriptLines) < MaxLines
    /\ Commit([World EXCEPT !.console = Append(@, Plain(s))])
    /\ UNCHANGED cur

\* A setTimeout that calls the callback at once when the delay is 0.
SetTimeoutAtOnce(W, h) == Call(W, h, Nil).W

\* setTimeout(h, 0) puts the callback h into the task queue.
SetTimeout(W, h) == [W EXCEPT !.timers = Append(@, h)]

\* setTimeout(() => { console.log("callback"); }, 0), called by the script
SetTimeoutCall(h) ==
    /\ InTask
    /\ Len(timers) < MaxTimers
    /\ Commit(SetTimeout(World, h))
    /\ UNCHANGED cur

\* The event loop takes the next task out of the queue, once the task before
\* it and the Promise jobs it left are finished, and runs it: the callback
\* of a setTimeout.
RunTimer ==
    /\ cur = "idle"
    /\ mq = <<>>
    /\ uncaught = <<>>
    /\ timers # <<>>
    /\ Commit(Call([World EXCEPT !.timers = Tail(@)], Head(timers), Nil).W)
    /\ UNCHANGED cur

(***************************************************************************)
(* Two runs of one script side by side: the variables hold the run in      *)
(* which the callbacks of Promise 1 are registered before it is settled,   *)
(* twin the run in which the same callbacks are registered after.  Every   *)
(* other statement is executed in both runs at the same place.             *)
(***************************************************************************)
\* The callbacks registered on Promise 1, in the order of registration: each
\* writes its name.
RegLabels == <<"f1", "f2">>

\* The second run starts as a copy of the first; mark is the number of its
\* reactions at the time Promise 1 is settled.
Second(W) ==
    [cells |-> W.cells, reacts |-> W.reacts, mq |-> W.mq, aggs |-> W.aggs,
     uncaught |-> W.uncaught, calls |-> W.calls, iters |-> W.iters,
     location |-> W.location, console |-> W.console, timers |-> W.timers,
     mark |-> 0]

\* The reactions registered on Promise 1 in run W.
RegsOf(W) == {r \in 1..Len(W.reacts) : W.reacts[r].src = 1}

\* p.then(f, f), for the next callback f
Register(W) ==
    LET f == Log(RegLabels[Cardinality(RegsOf(W)) + 1])
    IN Then(W, 1, f, f, "derived")

\* Promise.resolve("abc").then(() => console.log("other")): a work item of
\* another Promise, ready at once
Other(W) ==
    Then([W EXCEPT !.cells = Append(@, SettledCell("producer", "Fulfilled", Plain("abc")))],
         Len(W.cells) + 1, Log("other"), NoH, "derived")

\* const p = new Promise(...), in both runs
Begin ==
    /\ InTask
    /\ cells = <<>>
    /\ LET W1 == [World EXCEPT !.cells = <<NewCell("producer")>>]
       IN Commit([W1 EXCEPT !.twin = Second(W1)])
    /\ UNCHANGED cur

\* A registration in the first run, before the settlement
RegisterEarly ==
    /\ CanCreate
    /\ cells # <<>>
    /\ cells[1].st = "Pending"
    /\ Cardinality(RegsOf(World)) < Len(RegLabels)
    /\ Commit(Register(World))
    /\ UNCHANGED cur

\* resolve(v) or reject(e) of Promise 1, in both runs
SettleBoth(st, v) ==
    /\ InTask
    /\ cells # <<>>
    /\ cells[1].st = "Pending"
    /\ LET W1 == IF st = "Fulfilled" THEN ResolveFn(World, 1, Plain(v))
                 ELSE RejectFn(World, 1, Plain(v))
           T1 == IF st = "Fulfilled" THEN ResolveFn(twin, 1, Plain(v))
                 ELSE RejectFn(twin, 1, Plain(v))
       IN Commit([W1 EXCEPT !.twin = [T1 EXCEPT !.mark = Len(twin.reacts)]])
    /\ UNCHANGED cur

\* The same registration in the second run, after the settlement
RegisterLate ==
    /\ InTask
    /\ cells # <<>>
    /\ twin.cells[1].st # "Pending"
    /\ Cardinality(RegsOf(twin)) < Cardinality(RegsOf(World))
    /\ Commit([World EXCEPT !.twin = Register(twin)])
    /\ UNCHANGED cur

\* Another work item, in both runs
OtherWork ==
    /\ InTask
    /\ cells # <<>>
    /\ Cardinality(UserCells) + 2 <= MaxCells
    /\ Commit([Other(World) EXCEPT !.twin = Other(twin)])
    /\ UNCHANGED cur

\* The script ends, in both runs, with every callback registered in both.
EndBoth ==
    /\ InTask
    /\ cells # <<>>
    /\ Cardinality(RegsOf(twin)) = Cardinality(RegsOf(World))
    /\ cur' = "idle"
    /\ UNCHANGED <<cells, reacts, mq, aggs, uncaught, calls,
                   iters, location, console, timers, twin>>

\* The event loop of the second run runs its next Promise job.
RunJobTwin ==
    /\ cur = "idle"
    /\ twin.mq # <<>>
    /\ Commit([World EXCEPT !.twin = RunHead(twin)])
    /\ UNCHANGED cur

\* The script ends: the first task is finished.
EndTask ==
    /\ InTask
    /\ cur' = "idle"
    /\ UNCHANGED <<cells, reacts, mq, aggs, uncaught, calls,
                   iters, location, console, timers, twin>>

\* The event loop runs the next Promise job.
RunJob ==
    /\ cur = "idle"
    /\ mq # <<>>
    /\ uncaught = <<>>
    /\ Commit(RunHead(World))
    /\ UNCHANGED cur

\* The event loop runs the timer callback of c's producer, a task of its own,
\* once no Promise job is left: () => resolve(v)
TimerResolve(c, v) ==
    /\ cur = "idle"
    /\ mq = <<>>
    /\ uncaught = <<>>
    /\ c \in Producers
    /\ cells[c].timer
    /\ Commit(ResolveFn([Noted(World, c) EXCEPT !.cells[c].timer = FALSE], c, Plain(v)))
    /\ UNCHANGED cur

\* () => reject(e)
TimerReject(c, e) ==
    /\ cur = "idle"
    /\ mq = <<>>
    /\ uncaught = <<>>
    /\ c \in Producers
    /\ cells[c].timer
    /\ Commit(RejectFn([Noted(World, c) EXCEPT !.cells[c].timer = FALSE], c, Plain(e)))
    /\ UNCHANGED cur

Init ==
    /\ cells = <<>>
    /\ reacts = <<>>
    /\ mq = <<>>
    /\ aggs = <<>>
    /\ cur = "task"
    /\ uncaught = <<>>
    /\ calls = <<>>
    /\ iters = <<>>
    /\ location = 0
    /\ console = <<>>
    /\ timers = <<>>
    /\ twin = <<>>

\* What every script does: it creates Promises (with values of V), ends, and
\* the event loop runs the jobs and the timers.
CreateOf(V) ==
    \/ NewPromise
    \/ \E v \in V : PromiseResolve(v)
    \/ \E e \in Errors : PromiseReject(e)

LoopOf(V) ==
    \/ EndTask
    \/ RunJob
    \/ \E c \in Producers, v \in V : TimerResolve(c, v)
    \/ \E c \in Producers, e \in Errors : TimerReject(c, e)

Create == CreateOf(Values)

\* The same, with the values of V and the errors of E.
CreateWith(V, E) ==
    \/ NewPromise
    \/ \E v \in V : PromiseResolve(v)
    \/ \E e \in E : PromiseReject(e)

LoopWith(V, E) ==
    \/ EndTask
    \/ RunJob
    \/ \E c \in Producers, v \in V : TimerResolve(c, v)
    \/ \E c \in Producers, e \in E : TimerReject(c, e)

Loop == LoopOf(Values)

\* The last Promise the script has got: the one a chained call is made on.
LastCell == CHOOSE c \in UserCells : \A d \in UserCells : d <= c

(***************************************************************************)
(* Spec: producers that call their resolving functions any number of       *)
(* times, and callbacks registered on any Promise, before or after it is   *)
(* settled.                                                                *)
(***************************************************************************)
Next ==
    \/ NewPromise
    \/ \E c \in Producers, v \in Values : Resolve(c, v)
    \/ \E c \in Producers, e \in Errors : Reject(c, e)
    \/ \E c \in UserCells : ThenCall(c, Ret("default value"), NoH)
    \/ \E c \in UserCells : ThenCall(c, NoH, Ret("default value"))
    \/ Loop

Spec == Init /\ [][Next]_vars

(***************************************************************************)
(* SpecChain: chains of .then() and .catch() calls whose callbacks return, *)
(* throw or are missing.                                                   *)
(***************************************************************************)
ChainHandlers == {NoH, Ret("default value"), Throw("myError")}

NextChain ==
    \/ Create
    \/ \E f \in ChainHandlers, g \in ChainHandlers :
          UserCells # {} /\ ThenCall(LastCell, f, g)
    \/ UserCells # {} /\ ThenCall(LastCell, RetTwice, NoH)
    \/ Loop

SpecChain == Init /\ [][NextChain]_vars

(***************************************************************************)
(* SpecFlat: callbacks that return Promises.                               *)
(***************************************************************************)
NextFlat ==
    \/ Create
    \/ \E c \in UserCells, x \in UserCells : ThenCall(c, RetCell(x), NoH)
    \/ \E c \in UserCells : ThenCall(c, RetFresh, NoH)
    \/ Loop

SpecFlat == Init /\ [][NextFlat]_vars

(***************************************************************************)
(* SpecFin: .finally() callbacks that return nothing, throw, or return a   *)
(* Promise.                                                                *)
(***************************************************************************)
NextFin ==
    \/ Create
    \/ UserCells # {} /\ FinallyCall(LastCell, Ret("undefined"))
    \/ UserCells # {} /\ FinallyCall(LastCell, Throw("myError"))
    \/ \E x \in UserCells : FinallyCall(LastCell, RetCell(x))
    \/ Loop

SpecFin == Init /\ [][NextFin]_vars

(***************************************************************************)
(* SpecAll: Promise.all over the Promises of the script, in any order.     *)
(***************************************************************************)
AllValues == {"result a", "result b"}

NextAll ==
    \/ CreateOf(AllValues)
    \/ CanCreate /\ \E q \in InputLists : AllCall(q)
    \/ LoopOf(AllValues)

SpecAll == Init /\ [][NextAll]_vars

(***************************************************************************)
(* SpecAllRejects: Promise.all over Promises that are rejected with        *)
(* different errors.                                                       *)
(***************************************************************************)
OneValue == {"result"}
TwoErrors == {"ERROR A", "ERROR B"}

NextAllRejects ==
    \/ CreateWith(OneValue, TwoErrors)
    \/ CanCreate /\ \E q \in InputLists : AllCall(q)
    \/ LoopWith(OneValue, TwoErrors)

SpecAllRejects == Init /\ [][NextAllRejects]_vars

(***************************************************************************)
(* SpecRace: Promise.race over the Promises of the script, in any order.   *)
(***************************************************************************)
NextRace ==
    \/ CreateWith(OneValue, TwoErrors)
    \/ CanCreate /\ \E q \in InputLists : RaceCall(q)
    \/ LoopWith(OneValue, TwoErrors)

SpecRace == Init /\ [][NextRace]_vars

(***************************************************************************)
(* SpecAny: Promise.any over the Promises of the script, in any order,     *)
(* fulfilled with different values; SpecAnyRejects: rejected with          *)
(* different errors.                                                       *)
(***************************************************************************)
NextAny ==
    \/ CreateWith(AllValues, Errors)
    \/ CanCreate /\ \E q \in InputLists : AnyCall(q)
    \/ LoopWith(AllValues, Errors)

SpecAny == Init /\ [][NextAny]_vars

NextAnyRejects ==
    \/ CreateWith(OneValue, TwoErrors)
    \/ CanCreate /\ \E q \in InputLists : AnyCall(q)
    \/ LoopWith(OneValue, TwoErrors)

SpecAnyRejects == Init /\ [][NextAnyRejects]_vars

(***************************************************************************)
(* SpecAllSettled: Promise.allSettled over the Promises of the script, in  *)
(* any order.                                                              *)
(***************************************************************************)
NextAllSettled ==
    \/ CreateWith(OneValue, TwoErrors)
    \/ CanCreate /\ \E q \in InputLists : AllSettledCall(q)
    \/ LoopWith(OneValue, TwoErrors)

SpecAllSettled == Init /\ [][NextAllSettled]_vars

(***************************************************************************)
(* SpecComb: the four combinators, each called with the Array of the       *)
(* Promises the script has made so far, which is empty at first.           *)
(***************************************************************************)
\* const promises = [...]: the Promises made so far, in their order.
ScriptArray == Ascending(Producers)

NextComb ==
    \/ CreateWith(AllValues, Errors)
    \/ AllCall(ScriptArray)
    \/ RaceCall(ScriptArray)
    \/ AnyCall(ScriptArray)
    \/ AllSettledCall(ScriptArray)
    \/ LoopWith(AllValues, Errors)

SpecComb == Init /\ [][NextComb]_vars

(***************************************************************************)
(* SpecAsync: calls of async functions that return, throw, or await a      *)
(* value or a Promise of the script once or twice, and callbacks on their  *)
(* results.                                                                *)
(***************************************************************************)
\* What the scripts await: a value, or a Promise.
Operands == {Plain("yes!")} \cup {CellRef(c) : c \in Producers}

\* The Promises that calls of async functions returned.
AsyncResults == {calls[i].out : i \in 1..Len(calls)}

NextAsync ==
    \/ Create
    \/ AsyncCall(<<Ret("abc")>>)
    \/ AsyncCall(<<Throw("Problem!")>>)
    \/ \E x \in Operands : AsyncCall(<<AwaitStep(x), RetGot>>)
    \/ \E x \in Operands : AsyncCall(<<AwaitStep(x), AwaitStep(Plain("yes!")), RetGot>>)
    \/ \E c \in AsyncResults : ThenCall(c, Ret("undefined"), Ret("undefined"))
    \/ Loop

SpecAsync == Init /\ [][NextAsync]_vars

(***************************************************************************)
(* SpecAwait: async functions that return or throw at once or after an     *)
(* await, inside or outside a try statement, of a value or of a Promise of *)
(* the script.                                                             *)
(***************************************************************************)
NextAwait ==
    \/ Create
    \/ AsyncCall(<<Ret("abc")>>)
    \/ AsyncCall(<<Throw("Problem!")>>)
    \/ \E x \in Operands : AsyncCall(<<AwaitStep(x), RetGot>>)
    \/ \E x \in Operands : AsyncCall(<<AwaitStep(x), Throw("Problem!")>>)
    \/ \E x \in Operands : AsyncCall(<<TryAwait(x), RetGot>>)
    \/ \E x \in Operands : AsyncCall(<<TryAwait(x), Throw("Problem!")>>)
    \/ Loop

SpecAwait == Init /\ [][NextAwait]_vars

(***************************************************************************)
(* SpecIter: iterators of Arrays, generator objects of genFunc3 and async  *)
(* generators, whose .next() the script calls any number of times, and the *)
(* async function that awaits every result.                                *)
(***************************************************************************)
\* ["a", "b"], and the elements 1, 2, 3 of yield123
Iterables ==
    {<<Plain("a"), Plain("b")>>, <<Num(1), Num(2), Num(3)>>}

NextIter ==
    \/ \E items \in Iterables : GetIterator(items)
    \/ \E it \in Iters : NextCall(it)
    \/ GeneratorCall(genFunc3)
    \/ \E it \in Iters : GeneratorNextCall(it)
    \/ \E items \in Iterables : AsyncGeneratorCall(items)
    \/ \E it \in Iters : AsyncNextCall(it)
    \/ \E it \in Iters : ConsumerCall(it)
    \/ EndTask
    \/ RunJob

SpecIter == Init /\ [][NextIter]_vars

(***************************************************************************)
(* SpecFifo: Promises settled by the script or by their timers, at any     *)
(* time, and functionThen registered on any of them and on the Promises    *)
(* .then() returns.                                                        *)
(***************************************************************************)
functionThen == Log(".then()")

NextFifo ==
    \/ NewPromise
    \/ \E c \in Producers : Resolve(c, "abc")
    \/ \E c \in UserCells : ThenCall(c, functionThen, NoH)
    \/ Loop

SpecFifo == Init /\ [][NextFifo]_vars

(***************************************************************************)
(* SpecLoop: the script writes lines, hands callbacks to setTimeout with   *)
(* delay 0 and registers functionThen on fulfilled Promises; the event     *)
(* loop runs the Promise jobs and the callbacks.                           *)
(***************************************************************************)
NextLoop ==
    \/ LogCall("start")
    \/ LogCall("end")
    \/ SetTimeoutCall(Log("callback"))
    \/ PromiseResolve("abc")
    \/ \E c \in UserCells : ThenCall(c, functionThen, NoH)
    \/ EndTask
    \/ RunJob
    \/ RunTimer

SpecLoop == Init /\ [][NextLoop]_vars

(***************************************************************************)
(* SpecTiming: the two runs of a script that registers callbacks on a      *)
(* Promise, settles it and makes other work items ready, in any order.     *)
(***************************************************************************)
NextTiming ==
    \/ Begin
    \/ RegisterEarly
    \/ SettleBoth("Fulfilled", "abc")
    \/ SettleBoth("Rejected", "ERROR")
    \/ RegisterLate
    \/ OtherWork
    \/ EndBoth
    \/ RunJob
    \/ RunJobTwin

SpecTiming == Init /\ [][NextTiming]_vars

(***************************************************************************)
(* SpecFrame: async functions that await a Promise of the script, whose    *)
(* producer calls its resolving functions any number of times, in the      *)
(* script or in its timer, or never.                                       *)
(***************************************************************************)
NextFrame ==
    \/ NewPromise
    \/ \E c \in Producers, v \in Values : Resolve(c, v)
    \/ \E c \in Producers : AsyncCall(<<AwaitStep(CellRef(c)), RetGot>>)
    \/ \E c \in Producers :
          AsyncCall(<<AwaitStep(CellRef(c)), AwaitStep(CellRef(c)), RetGot>>)
    \/ Loop

SpecFrame == Init /\ [][NextFrame]_vars

(***************************************************************************)
(* SpecBoth: .then(onFulfilled, onRejected) with both callbacks, each of    *)
(* which returns, throws or writes a line.                                 *)
(***************************************************************************)
NextBoth ==
    \/ Create
    \/ \E c \in UserCells : ThenCall(c, Throw("Problem!"), Ret("recovered"))
    \/ \E c \in UserCells : ThenCall(c, Ret("result"), Throw("Problem!"))
    \/ \E c \in UserCells : ThenCall(c, Log("onFulfilled"), Log("onRejected"))
    \/ Loop

SpecBoth == Init /\ [][NextBoth]_vars

(***************************************************************************)
(* Properties of settlement and of registration (Spec).                    *)
(***************************************************************************)
Cells == 1..Len(cells)
Reacts == 1..Len(reacts)

\* The jobs of reaction r that wait in the queue.
JobsOf(r) == {i \in 1..Len(mq) : mq[i].k = "react" /\ mq[i].a = r}

\* The places of reaction r in the list of its Promise.
PlacesOf(r) ==
    {i \in 1..Len(cells[reacts[r].src].rs) : cells[reacts[r].src].rs[i] = r}

\* C1: a settled Promise keeps its state and its settlement value in every
\* step, whatever resolving function is called on it again, and no call of a
\* resolving function raises an error.
C1_SettleOnce ==
    [][/\ \A c \in Cells :
             cells[c].st # "Pending" =>
                 /\ cells'[c].st = cells[c].st
                 /\ cells'[c].val = cells[c].val
       /\ uncaught' = <<>>]_vars

\* A producer called a resolving function again on its fulfilled Promise and
\* again on its rejected Promise.
C1_Witness ==
    \E c \in Producers, d \in Producers :
        /\ cells[c].again /\ cells[c].st = "Fulfilled" /\ cells[c].val = Plain("abc")
        /\ cells[d].again /\ cells[d].st = "Rejected" /\ cells[d].val = Plain("ERROR")

\* C2: a reaction on a pending Promise waits in the Promise's list, once, and
\* has not fired; a reaction on a settled Promise has exactly one job, waiting
\* or run, whether it was registered before or after the settlement, and the
\* job carries the state and the value of the Promise.
C2_FiresOnce ==
    \A r \in Reacts :
        LET rc == reacts[r]
            src == cells[rc.src]
        IN IF src.st = "Pending"
           THEN /\ rc.fired = 0
                /\ JobsOf(r) = {}
                /\ Cardinality(PlacesOf(r)) = 1
           ELSE /\ rc.fired + Cardinality(JobsOf(r)) = 1
                /\ PlacesOf(r) = {}
                /\ \A i \in JobsOf(r) : mq[i].st = src.st /\ mq[i].val = src.val
                /\ rc.fired = 1 => /\ rc.arg = src.val
                                    /\ rc.ran \in {"", src.st}

\* Two callbacks of one Promise, one registered too early and one too late,
\* were both called with the value of the Promise.
C2_Witness ==
    \E r \in Reacts, q \in Reacts :
        /\ reacts[r].src = reacts[q].src
        /\ reacts[r].late /\ ~reacts[q].late
        /\ reacts[r].fired = 1 /\ reacts[q].fired = 1
        /\ reacts[r].ran # "" /\ reacts[q].ran # ""
        /\ reacts[r].arg = reacts[q].arg

\* C3: while the script that registers the callbacks is running, no reaction
\* has fired and no callback has been called, even on a settled Promise: a
\* reaction fires only in a step of the event loop, after the script.
C3_NeverInsideRegistration ==
    /\ []((cur = "task") => \A r \in Reacts : reacts[r].fired = 0 /\ reacts[r].ran = "")
    /\ [][\A r \in Reacts :
             reacts'[r].fired # reacts[r].fired => cur = "idle" /\ cur' = "idle"]_vars

\* A callback registered on a settled Promise was called after the script.
C3_Witness ==
    \E r \in Reacts :
        /\ reacts[r].late /\ reacts[r].ran # "" /\ reacts[r].fired = 1
        /\ cur = "idle"

(***************************************************************************)
(* Properties of the callbacks' outcomes (SpecChain).                      *)
(***************************************************************************)
\* The .then() reactions of the script whose job has run.
FiredThens ==
    {r \in Reacts : reacts[r].typ = "then" /\ reacts[r].fired = 1
                     /\ cells[reacts[r].res].kind = "derived"}

\* The callback of reaction r for the state of its Promise.
Taken(r) ==
    IF cells[reacts[r].src].st = "Fulfilled" THEN reacts[r].onF ELSE reacts[r].onR

\* C5: once the callback of the path taken (.then() or .catch()) has returned
\* an ordinary value, the reaction's Promise is fulfilled with that value, and
\* every reaction that has fired on that Promise got the value on the
\* fulfilled path.
C5_ReturnFulfils ==
    \A r \in FiredThens :
        LET rc == reacts[r]
            h == Taken(r)
            want == IF h.k = "ret" THEN h.a ELSE Twice(cells[rc.src].val)
        IN h.k \in {"ret", "twice"} =>
               /\ rc.ran = cells[rc.src].st
               /\ cells[rc.res].st = "Fulfilled"
               /\ cells[rc.res].val = want
               /\ \A q \in Reacts :
                      reacts[q].src = rc.res /\ reacts[q].fired = 1 =>
                          /\ reacts[q].arg = want
                          /\ reacts[q].ran \in {"", "Fulfilled"}

\* A .catch() callback returned the default value for a rejection, and the
\* .then() callback after it was called with that value.
C5_Witness ==
    \E r \in FiredThens, q \in FiredThens :
        /\ cells[reacts[r].src].st = "Rejected"
        /\ reacts[r].ran = "Rejected"
        /\ reacts[r].onR = Ret("default value")
        /\ reacts[q].src = reacts[r].res
        /\ reacts[q].ran = "Fulfilled"
        /\ reacts[q].arg = Plain("default value")

\* C6: once the callback of the path taken has thrown, the reaction's Promise
\* is rejected with the exception thrown; no exception leaves a job (the event
\* loop is never stopped by one), and a job leaves the jobs that waited behind
\* it in the queue, in their order.
C6_ThrowRejects ==
    /\ [](/\ \A r \in FiredThens :
                Taken(r).k = "throw" =>
                    /\ reacts[r].ran = cells[reacts[r].src].st
                    /\ reacts[r].thrown
                    /\ cells[reacts[r].res].st = "Rejected"
                    /\ cells[reacts[r].res].val = Taken(r).a
           /\ uncaught = <<>>)
    /\ [][(cur = "idle" /\ mq # <<>> /\ reacts' # reacts) =>
             /\ Len(mq') >= Len(mq) - 1
             /\ SubSeq(mq', 1, Len(mq) - 1) = Tail(mq)]_vars

\* Two jobs waited when the script ended; the callback of the first threw
\* myError and the callback of the second was called after it.
C6_Witness ==
    \E r \in FiredThens, q \in FiredThens :
        /\ r < q
        /\ reacts[r].late /\ reacts[q].late
        /\ reacts[r].thrown /\ reacts[r].out = Plain("myError")
        /\ cells[reacts[r].res].st = "Rejected"
        /\ reacts[q].ran # ""

\* C7: a reaction without a callback for the path taken calls no callback and
\* gives its Promise the state and the value of its source.
C7_PassThrough ==
    \A r \in FiredThens :
        Taken(r).k = "none" =>
            /\ reacts[r].ran = ""
            /\ cells[reacts[r].res].st = cells[reacts[r].src].st
            /\ cells[reacts[r].res].val = cells[reacts[r].src].val

\* A rejection with ERROR passed two .then() calls that have only a
\* fulfillment callback, called neither, and reached the .catch() callback.
C7_Witness ==
    \E r \in FiredThens, q \in FiredThens, p \in FiredThens :
        /\ cells[reacts[r].src].kind = "producer"
        /\ cells[reacts[r].src].st = "Rejected"
        /\ cells[reacts[r].src].val = Plain("ERROR")
        /\ reacts[q].src = reacts[r].res
        /\ reacts[p].src = reacts[q].res
        /\ reacts[r].onF # NoH /\ reacts[r].onR = NoH /\ reacts[r].ran = ""
        /\ reacts[q].onF # NoH /\ reacts[q].onR = NoH /\ reacts[q].ran = ""
        /\ reacts[p].ran = "Rejected"
        /\ reacts[p].arg = Plain("ERROR")

(***************************************************************************)
(* Properties of callbacks that return Promises (SpecFlat).                *)
(***************************************************************************)
\* The Promise the callback of fired reaction r returned.
Returned(r) ==
    IF Taken(r).k = "cell" THEN Taken(r).a.v ELSE reacts[r].out.v

Quiet == cur = "idle" /\ mq = <<>>

\* C4: no Promise is ever fulfilled (or rejected) with a Promise as its value;
\* when a callback has returned Promise X, the reaction's Promise is pending
\* as long as X is, is settled only with the state and the value of X, and is
\* settled once X is settled and no job is left.
C4_Flattening ==
    /\ \A c \in Cells : cells[c].val.t # "cell"
    /\ \A r \in FiredThens :
           Taken(r).k \in {"cell", "fresh"} =>
               LET x == cells[Returned(r)]
                   res == cells[reacts[r].res]
               IN /\ x.st = "Pending" => res.st = "Pending"
                  /\ res.st # "Pending" => res.st = x.st /\ res.val = x.val
                  /\ (Quiet /\ x.st # "Pending") => res.st # "Pending"

\* Two levels: a callback returned a Promise that itself follows the Promise
\* another callback returned, a producer's, and all three are fulfilled with
\* the producer's value.
C4_Witness ==
    \E r \in FiredThens, q \in FiredThens :
        /\ Taken(r).k = "cell" /\ Taken(q).k = "cell"
        /\ Returned(r) = reacts[q].res
        /\ cells[Returned(q)].kind = "producer"
        /\ Returned(q) # reacts[q].src
        /\ \E a \in Reacts : /\ reacts[a].typ = "adopt"
                              /\ reacts[a].src = Returned(q)
                              /\ ~reacts[a].late
        /\ cells[Returned(q)].st = "Fulfilled"
        /\ cells[reacts[q].res].st = "Fulfilled"
        /\ cells[reacts[r].res].st = "Fulfilled"
        /\ cells[reacts[r].res].val = Plain("abc")

(***************************************************************************)
(* Properties of .finally() (SpecFin).                                     *)
(***************************************************************************)
Finals == {r \in Reacts : reacts[r].typ = "finally"}

\* The callback of every .finally() reaction is called exactly once, when the
\* source is settled, on either path.
FinallyRunsOnce ==
    \A r \in Finals :
        LET rc == reacts[r]
        IN /\ cells[rc.src].st = "Pending" => rc.fired = 0 /\ JobsOf(r) = {}
           /\ cells[rc.src].st # "Pending" => rc.fired + Cardinality(JobsOf(r)) = 1
           /\ rc.ran = (IF rc.fired = 1 THEN "finally" ELSE "")

\* C8 as stated: the callback runs exactly once and, when it has returned
\* without throwing, whatever it returned, a settled result has the state and
\* the value of the source.
C8_AsStated ==
    /\ FinallyRunsOnce
    /\ \A r \in Finals :
           LET rc == reacts[r]
           IN (rc.fired = 1 /\ ~rc.thrown /\ cells[rc.res].st # "Pending") =>
                  /\ cells[rc.res].st = cells[rc.src].st
                  /\ cells[rc.res].val = cells[rc.src].val

\* C8, amended: the callback runs exactly once; when it has returned an
\* ordinary value, or a Promise that is fulfilled, the result gets the state
\* and the value of the source; when it has returned a Promise that is
\* rejected, the result is rejected with that Promise's error; while the
\* returned Promise is pending, the result is pending.
C8_FinallyKeepsOutcome ==
    /\ FinallyRunsOnce
    /\ \A r \in Finals :
           LET rc == reacts[r]
               src == cells[rc.src]
               res == cells[rc.res]
               same == res.st = src.st /\ res.val = src.val
           IN rc.fired = 1 =>
                 /\ rc.onF.k = "ret" =>
                        /\ res.st # "Pending" => same
                        /\ Quiet => res.st # "Pending"
                 /\ rc.onF.k = "cell" =>
                        LET x == cells[rc.onF.a.v]
                        IN /\ x.st = "Pending" => res.st = "Pending"
                           /\ (x.st = "Fulfilled" /\ res.st # "Pending") => same
                           /\ (x.st = "Rejected" /\ res.st # "Pending") =>
                                  res.st = "Rejected" /\ res.val = x.val
                           /\ (Quiet /\ x.st # "Pending") => res.st # "Pending"

\* A callback that returned nothing left abc to its result; a callback that
\* returned a Promise rejected with ERROR had its result, whose source is
\* fulfilled with abc, rejected with ERROR.
C8_Witness ==
    \E r \in Finals, q \in Finals :
        /\ reacts[r].onF = Ret("undefined") /\ reacts[r].ran = "finally"
        /\ cells[reacts[r].src].kind = "producer"
        /\ cells[reacts[r].res].st = "Fulfilled"
        /\ cells[reacts[r].res].val = Plain("abc")
        /\ reacts[q].onF.k = "cell" /\ reacts[q].ran = "finally"
        /\ reacts[q].src = reacts[r].res
        /\ cells[reacts[q].onF.a.v].st = "Rejected"
        /\ cells[reacts[q].res].st = "Rejected"
        /\ cells[reacts[q].res].val = Plain("ERROR")

\* C9: once a .finally() callback has thrown, the result is rejected with the
\* exception it threw, whether the source was fulfilled or rejected.
C9_FinallyThrow ==
    \A r \in Finals :
        (reacts[r].fired = 1 /\ reacts[r].onF.k = "throw") =>
            /\ reacts[r].thrown
            /\ cells[reacts[r].res].st = "Rejected"
            /\ cells[reacts[r].res].val = reacts[r].onF.a

\* The callback threw myError after a fulfillment with abc and after a
\* rejection with ERROR; both results are rejected with myError.
C9_Witness ==
    \E r \in Finals, q \in Finals :
        /\ reacts[r].thrown /\ reacts[q].thrown
        /\ cells[reacts[r].src].st = "Fulfilled"
        /\ cells[reacts[r].src].val = Plain("abc")
        /\ cells[reacts[q].src].st = "Rejected"
        /\ cells[reacts[q].src].val = Plain("ERROR")
        /\ cells[reacts[r].res].val = Plain("myError")
        /\ cells[reacts[q].res].val = Plain("myError")
        /\ cells[reacts[r].res].st = "Rejected"
        /\ cells[reacts[q].res].st = "Rejected"

(***************************************************************************)
(* Properties of Promise.all (SpecAll).                                    *)
(***************************************************************************)
Alls == {a \in 1..Len(aggs) : aggs[a].policy = "all" /\ Len(aggs[a].inputs) >= 1}

\* The settlement values of the inputs of a combinator call, by index.
InputValues(a) ==
    [i \in 1..Len(aggs[a].inputs) |-> cells[aggs[a].inputs[i]].val]

InputStates(a) == {cells[aggs[a].inputs[i]].st : i \in 1..Len(aggs[a].inputs)}

\* C10: the result of Promise.all over one or more inputs is fulfilled only
\* when every input is fulfilled, and then with the Array that holds input
\* i's value at index i; it is pending while an input is pending and none is
\* rejected; it is fulfilled once all inputs are and no job is left.
C10_AllIndexAligned ==
    \A a \in Alls :
        LET out == cells[aggs[a].out]
        IN /\ out.st = "Fulfilled" =>
                  /\ InputStates(a) = {"Fulfilled"}
                  /\ out.val = List(InputValues(a))
           /\ ("Pending" \in InputStates(a) /\ "Rejected" \notin InputStates(a)) =>
                  out.st = "Pending"
           /\ (Quiet /\ InputStates(a) = {"Fulfilled"}) => out.st = "Fulfilled"

\* Promise.all over three inputs that delivered in another order than that
\* of the Array, with different values, is fulfilled with the three values.
C10_Witness ==
    \E a \in Alls :
        /\ Len(aggs[a].inputs) = 3
        /\ aggs[a].order = <<3, 1, 2>>
        /\ cells[aggs[a].out].st = "Fulfilled"
        /\ cells[aggs[a].out].val =
               List(<<Plain("result a"), Plain("result b"), Plain("result a")>>)

(***************************************************************************)
(* Properties of the rejection of Promise.all (SpecAllRejects).            *)
(***************************************************************************)
\* The inputs of combinator call a in the order of their settlement.
TimeOrder(a) == aggs[a].early \o aggs[a].seen

\* The inputs of call a in the order in which the call is notified of their
\* settlement: those settled before the call in the order of the Array, then
\* the others in the order of their settlement.
NoticeOrder(a) ==
    SelectSeq(aggs[a].inputs,
              LAMBDA c : \E i \in 1..Len(aggs[a].early) : aggs[a].early[i] = c)
        \o aggs[a].seen

RejectedOf(q) == SelectSeq(q, LAMBDA c : cells[c].st = "Rejected")

FulfilledOf(q) == SelectSeq(q, LAMBDA c : cells[c].st = "Fulfilled")

\* Once the result of call a is rejected, no step changes it.
StaysRejected(a) ==
    cells[aggs[a].out].st = "Rejected" =>
        /\ cells'[aggs[a].out].st = "Rejected"
        /\ cells'[aggs[a].out].val = cells[aggs[a].out].val

\* What C11 says of the result of call a whose rejecting input comes first in
\* the order q: rejected only with the error of that input, rejected once an
\* input is rejected and no job is left (whatever inputs are pending), and
\* never fulfilled when an input is rejected.
AllRejectsWith(a, q) ==
    LET out == cells[aggs[a].out]
    IN /\ out.st = "Rejected" =>
              /\ RejectedOf(q) # <<>>
              /\ out.val = cells[Head(RejectedOf(q))].val
       /\ (Quiet /\ "Rejected" \in InputStates(a)) => out.st = "Rejected"
       /\ out.st = "Fulfilled" => "Rejected" \notin InputStates(a)

\* C11 as stated: the result of Promise.all is rejected once an input is
\* rejected, with the error of the input that was rejected first in time,
\* without waiting for the pending inputs; no later step changes it.
C11_AsStated ==
    /\ [](\A a \in Alls : AllRejectsWith(a, TimeOrder(a)))
    /\ [][\A a \in Alls : StaysRejected(a)]_vars

\* C11, amended: the result of Promise.all is rejected once an input is
\* rejected, without waiting for the pending inputs, with the error of the
\* input whose rejection it is notified of first: of the inputs already
\* rejected when Promise.all is called, the first in the Array; if there is
\* none, the input that is rejected first in time; no later step changes it.
C11_AllRejectsFirst ==
    /\ [](\A a \in Alls : AllRejectsWith(a, NoticeOrder(a)))
    /\ [][\A a \in Alls : StaysRejected(a)]_vars

\* Of three inputs pending at the call, the second was rejected first, with
\* ERROR B, then the first with ERROR A, and then the third was fulfilled:
\* the result is rejected with ERROR B.
C11_Witness ==
    \E a \in Alls :
        /\ Len(aggs[a].inputs) = 3
        /\ aggs[a].early = <<>>
        /\ aggs[a].seen = <<aggs[a].inputs[2], aggs[a].inputs[1], aggs[a].inputs[3]>>
        /\ cells[aggs[a].inputs[2]].val = Plain("ERROR B")
        /\ cells[aggs[a].inputs[1]].val = Plain("ERROR A")
        /\ cells[aggs[a].inputs[1]].st = "Rejected"
        /\ cells[aggs[a].inputs[3]].st = "Fulfilled"
        /\ cells[aggs[a].out].st = "Rejected"
        /\ cells[aggs[a].out].val = Plain("ERROR B")

(***************************************************************************)
(* Properties of Promise.race (SpecRace).                                  *)
(***************************************************************************)
Races == {a \in 1..Len(aggs) : aggs[a].policy = "race" /\ Len(aggs[a].inputs) >= 1}

\* Once the result of call a is settled, no step changes it.
StaysSettled(a) ==
    cells[aggs[a].out].st # "Pending" =>
        /\ cells'[aggs[a].out].st = cells[aggs[a].out].st
        /\ cells'[aggs[a].out].val = cells[aggs[a].out].val

\* What C12 says of the result of call a whose settled inputs come in the
\* order q: settled only with the state and the value of the first of them,
\* and settled once an input is settled and no job is left.
RaceTakes(a, q) ==
    LET out == cells[aggs[a].out]
    IN /\ out.st # "Pending" =>
              /\ q # <<>>
              /\ out.st = cells[Head(q)].st
              /\ out.val = cells[Head(q)].val
       /\ (Quiet /\ InputStates(a) # {"Pending"}) => out.st # "Pending"

\* C12 as stated: the result of Promise.race has the state and the value of
\* the input that was settled first in time, fulfilled or rejected, and keeps
\* them whatever is settled later.
C12_AsStated ==
    /\ [](\A a \in Races : RaceTakes(a, TimeOrder(a)))
    /\ [][\A a \in Races : StaysSettled(a)]_vars

\* C12, amended: the result of Promise.race has the state and the value of
\* the input of whose settlement it is notified first: of the inputs already
\* settled when Promise.race is called, the first in the Array; if there is
\* none, the input that is settled first in time; it keeps them whatever is
\* settled later.
C12_RaceFirstSettled ==
    /\ [](\A a \in Races : RaceTakes(a, NoticeOrder(a)))
    /\ [][\A a \in Races : StaysSettled(a)]_vars

\* A race over two inputs pending at the call: the second was rejected first,
\* with ERROR B, the first was fulfilled later, and the result is rejected
\* with ERROR B.
C12_Witness ==
    \E a \in Races :
        /\ Len(aggs[a].inputs) = 2
        /\ aggs[a].early = <<>>
        /\ aggs[a].seen = <<aggs[a].inputs[2], aggs[a].inputs[1]>>
        /\ cells[aggs[a].inputs[2]].st = "Rejected"
        /\ cells[aggs[a].inputs[1]].st = "Fulfilled"
        /\ cells[aggs[a].out].st = "Rejected"
        /\ cells[aggs[a].out].val = Plain("ERROR B")

(***************************************************************************)
(* Properties of Promise.any (SpecAny, SpecAnyRejects).                    *)
(***************************************************************************)
Anys == {a \in 1..Len(aggs) : aggs[a].policy = "any" /\ Len(aggs[a].inputs) >= 1}

\* What C13 says of the result of call a whose inputs come in the order q:
\* fulfilled only with the value of the first fulfilled one, fulfilled once
\* an input is fulfilled and no job is left, however many inputs are
\* rejected, and never rejected while an input is not rejected.
AnyTakes(a, q) ==
    LET out == cells[aggs[a].out]
    IN /\ out.st = "Fulfilled" =>
              /\ FulfilledOf(q) # <<>>
              /\ out.val = cells[Head(FulfilledOf(q))].val
       /\ (Quiet /\ "Fulfilled" \in InputStates(a)) => out.st = "Fulfilled"
       /\ out.st = "Rejected" => InputStates(a) = {"Rejected"}

\* C13 as stated: the result of Promise.any is fulfilled with the value of
\* the input that was fulfilled first (in time), whatever the number of
\* inputs rejected before it; it is not rejected unless all inputs are.
C13_AsStated ==
    \A a \in Anys : AnyTakes(a, TimeOrder(a))

\* C13, amended: the result of Promise.any is fulfilled with the value of the
\* input of whose fulfillment it is notified first (of the inputs already
\* fulfilled when Promise.any is called, the first in the Array; if there is
\* none, the input that is fulfilled first in time), whatever the number of
\* inputs rejected before it; it is not rejected unless all inputs are.
C13_AnyFirstFulfilled ==
    \A a \in Anys : AnyTakes(a, NoticeOrder(a))

\* Of three inputs pending at the call, the first two were rejected and then
\* the third was fulfilled: the result is fulfilled with the third's value.
C13_Witness ==
    \E a \in Anys :
        /\ Len(aggs[a].inputs) = 3
        /\ aggs[a].early = <<>>
        /\ aggs[a].seen = aggs[a].inputs
        /\ cells[aggs[a].inputs[1]].st = "Rejected"
        /\ cells[aggs[a].inputs[2]].st = "Rejected"
        /\ cells[aggs[a].inputs[3]].st = "Fulfilled"
        /\ cells[aggs[a].out].st = "Fulfilled"
        /\ cells[aggs[a].out].val = cells[aggs[a].inputs[3]].val

\* C14: the result of Promise.any over one or more inputs is rejected only
\* when every input is rejected, and then with an AggregateError whose errors
\* hold input i's error at index i, whatever the order of the rejections; it
\* is rejected once all inputs are and no job is left.
C14_AnyAllRejected ==
    \A a \in Anys :
        LET out == cells[aggs[a].out]
        IN /\ out.st = "Rejected" =>
                  /\ \A i \in 1..Len(aggs[a].inputs) :
                         cells[aggs[a].inputs[i]].st = "Rejected"
                  /\ out.val = AggregateError(InputValues(a))
           /\ (Quiet /\ InputStates(a) = {"Rejected"}) => out.st = "Rejected"

\* Three inputs were rejected in another order than that of the Array, with
\* different errors, and the result carries the three errors in the order of
\* the Array.
C14_Witness ==
    \E a \in Anys :
        /\ Len(aggs[a].inputs) = 3
        /\ aggs[a].order = <<3, 1, 2>>
        /\ cells[aggs[a].out].st = "Rejected"
        /\ cells[aggs[a].out].val =
               AggregateError(<<Plain("ERROR A"), Plain("ERROR B"), Plain("ERROR A")>>)

(***************************************************************************)
(* Properties of Promise.allSettled (SpecAllSettled).                      *)
(***************************************************************************)
AllSettleds ==
    {a \in 1..Len(aggs) : aggs[a].policy = "allSettled" /\ Len(aggs[a].inputs) >= 1}

\* The outcomes of the inputs of a combinator call, by index.
InputOutcomes(a) ==
    [i \in 1..Len(aggs[a].inputs) |->
        Outcome(cells[aggs[a].inputs[i]].st, cells[aggs[a].inputs[i]].val)]

\* C15: the result of Promise.allSettled is never rejected; it is pending
\* while an input is pending; it is fulfilled once every input is settled and
\* no job is left, with the Array that holds at index i the outcome of input
\* i: status fulfilled and its value, or status rejected and its reason.
C15_AllSettledCollects ==
    \A a \in AllSettleds :
        LET out == cells[aggs[a].out]
        IN /\ out.st # "Rejected"
           /\ "Pending" \in InputStates(a) => out.st = "Pending"
           /\ out.st = "Fulfilled" => out.val = List(InputOutcomes(a))
           /\ (Quiet /\ "Pending" \notin InputStates(a)) => out.st = "Fulfilled"

\* Three inputs delivered in another order than that of the Array: the first
\* is fulfilled, the others are rejected with different errors, and the
\* result is fulfilled with the three outcomes in the order of the Array.
C15_Witness ==
    \E a \in AllSettleds :
        /\ Len(aggs[a].inputs) = 3
        /\ aggs[a].order = <<3, 1, 2>>
        /\ cells[aggs[a].out].st = "Fulfilled"
        /\ cells[aggs[a].out].val =
               List(<<[status |-> "fulfilled", value |-> Plain("result")],
                      [status |-> "rejected", reason |-> Plain("ERROR A")],
                      [status |-> "rejected", reason |-> Plain("ERROR B")]>>)

(***************************************************************************)
(* Properties of the combinators called with an empty Array, and of the    *)
(* settlement of their results (SpecComb, SpecRace, SpecAny).              *)
(***************************************************************************)
\* The calls of a combinator with an empty Array.
EmptyCalls(policy) ==
    {a \in 1..Len(aggs) : aggs[a].policy = policy /\ aggs[a].inputs = <<>>}

\* C16: the result of Promise.all([]) and that of Promise.allSettled([]) are
\* fulfilled with an empty Array in every state from the call on: already
\* while the calling script runs, before any job or timer.
C16_EmptyCompletesAtOnce ==
    \A a \in EmptyCalls("all") \cup EmptyCalls("allSettled") :
        /\ cells[aggs[a].out].st = "Fulfilled"
        /\ cells[aggs[a].out].val = List(<<>>)

\* The script has called both with an empty Array and is still running: no
\* job has run, none waits, and both results are fulfilled.
C16_Witness ==
    /\ cur = "task"
    /\ mq = <<>>
    /\ \E a \in EmptyCalls("all"), b \in EmptyCalls("allSettled") :
           /\ cells[aggs[a].out].st = "Fulfilled"
           /\ cells[aggs[b].out].st = "Fulfilled"
           /\ cells[aggs[b].out].val = List(<<>>)

\* C17: the result of Promise.race([]) is pending in every reachable state.
C17_EmptyRacePending ==
    \A a \in EmptyCalls("race") :
        /\ cells[aggs[a].out].st = "Pending"
        /\ cells[aggs[a].out].val = Nil
        /\ ~cells[aggs[a].out].locked

\* The script with a Promise.race([]) has ended, other Promises have been
\* fulfilled and rejected, a race over them is settled, nothing is left to
\* run, and the result of Promise.race([]) is pending.
C17_Witness ==
    /\ Quiet
    /\ \E a \in EmptyCalls("race"), b \in Races :
           /\ cells[aggs[a].out].st = "Pending"
           /\ cells[aggs[b].out].st # "Pending"
           /\ \A c \in Producers : cells[c].st # "Pending"
           /\ \E c \in Producers : cells[c].st = "Rejected"

\* C18 as stated: the result of Promise.any([]) is pending in every
\* reachable state.
C18_AsStated ==
    \A a \in EmptyCalls("any") : cells[aggs[a].out].st = "Pending"

\* C18, amended: the result of Promise.any([]) is rejected in every state
\* from the call on, with an AggregateError whose errors are an empty Array.
C18_EmptyAnyRejected ==
    \A a \in EmptyCalls("any") :
        /\ cells[aggs[a].out].st = "Rejected"
        /\ cells[aggs[a].out].val = AggregateError(<<>>)

\* The script has called Promise.any([]) and is still running: the result is
\* rejected.
C18_Witness ==
    /\ cur = "task"
    /\ \E a \in EmptyCalls("any") :
           /\ cells[aggs[a].out].st = "Rejected"
           /\ cells[aggs[a].out].val.v = <<>>

\* The condition on which the result of combinator call a is settled.
ConditionMet(a) ==
    LET S == InputStates(a)
        p == aggs[a].policy
    IN IF p = "all" THEN "Rejected" \in S \/ S \subseteq {"Fulfilled"}
       ELSE IF p = "race" THEN S \ {"Pending"} # {}
       ELSE IF p = "any" THEN "Fulfilled" \in S \/ S \subseteq {"Rejected"}
       ELSE "Pending" \notin S

\* C19: for every call of one of the four combinators, the result is settled
\* only when the condition of the combinator is met, and is settled once it
\* is met and no job is left; no step changes the state or the value of a
\* settled result, whatever input is settled in it.
C19_SettlesOnce ==
    /\ [](\A a \in 1..Len(aggs) :
             /\ cells[aggs[a].out].st # "Pending" => ConditionMet(a)
             /\ (Quiet /\ ConditionMet(a)) => cells[aggs[a].out].st # "Pending")
    /\ [][\A a \in 1..Len(aggs) : StaysSettled(a)]_vars

\* A Promise.any and a Promise.race over the same two inputs: the first was
\* fulfilled with result a, the second with result b later, and both results
\* are fulfilled with result a.
C19_Witness ==
    \E a \in Anys, b \in Races :
        /\ Len(aggs[a].inputs) = 2
        /\ aggs[b].inputs = aggs[a].inputs
        /\ aggs[a].seen = aggs[a].inputs
        /\ aggs[b].seen = aggs[a].inputs
        /\ cells[aggs[a].inputs[1]].val = Plain("result a")
        /\ cells[aggs[a].inputs[2]].val = Plain("result b")
        /\ cells[aggs[a].out].st = "Fulfilled"
        /\ cells[aggs[b].out].st = "Fulfilled"
        /\ cells[aggs[a].out].val = Plain("result a")
        /\ cells[aggs[b].out].val = Plain("result a")

(***************************************************************************)
(* Properties of async functions (SpecAsync).                              *)
(***************************************************************************)
Calls == 1..Len(calls)

\* The reactions the script registered on the result of call i.
ReactionsOn(i) ==
    {r \in Reacts : reacts[r].typ = "then" /\ reacts[r].src = calls[i].out}

\* C20: the first segment of an async function has run when the call
\* returns: it has paused at its first await, or the call has ended and its
\* Promise is resolved.  While the calling script runs, no other segment has
\* run and no callback on the result has been called; a later segment runs
\* only as the job of the await the function is paused on, one segment a job,
\* and a reaction on the result fires only in a step of the event loop.
C20_SyncStartAsyncRest ==
    /\ [](\A i \in Calls :
             /\ calls[i].segments >= 1
             /\ IF calls[i].body[1].k = "await"
                THEN calls[i].pc >= 2
                ELSE calls[i].pc = 2 /\ cells[calls[i].out].locked
             /\ cur = "task" =>
                    /\ calls[i].segments = 1
                    /\ calls[i].pc <= 2
                    /\ \A r \in ReactionsOn(i) :
                           reacts[r].fired = 0 /\ reacts[r].ran = "")
    /\ [][\A i \in Calls :
             /\ calls'[i].segments # calls[i].segments =>
                    /\ cur = "idle" /\ cur' = "idle"
                    /\ mq # <<>>
                    /\ Head(mq).k = "react"
                    /\ reacts[Head(mq).a].typ = "await"
                    /\ reacts[Head(mq).a].idx = i
                    /\ reacts[Head(mq).a].src = calls[i].waits
                    /\ calls'[i].segments = calls[i].segments + 1
             /\ \A r \in ReactionsOn(i) :
                    reacts'[r].fired # reacts[r].fired => cur = "idle" /\ cur' = "idle"]_vars

\* A function that awaits a Promise of the script and then a value has run
\* its three segments, the last two after the script; its result is
\* fulfilled with the value, and a callback registered on the result when the
\* function was paused has been called with it.
C20_Witness ==
    \E i \in Calls :
        /\ Len(calls[i].body) = 3
        /\ calls[i].body[1].a.t = "cell"
        /\ calls[i].segments = 3
        /\ cur = "idle"
        /\ cells[calls[i].out].st = "Fulfilled"
        /\ cells[calls[i].out].val = Plain("yes!")
        /\ \E r \in ReactionsOn(i) :
               /\ ~reacts[r].late
               /\ reacts[r].ran = "Fulfilled"
               /\ reacts[r].arg = Plain("yes!")
               /\ cells[reacts[r].res].st = "Fulfilled"

(***************************************************************************)
(* Properties of the results of async functions and of await (SpecAwait).  *)
(***************************************************************************)
\* The reactions of the awaits of call i.
AwaitsOf(i) == {r \in Reacts : reacts[r].typ = "await" /\ reacts[r].idx = i}

\* The statement of the body the await of reaction r is.
StepOf(r) ==
    calls[reacts[r].idx].body[Cardinality({q \in AwaitsOf(reacts[r].idx) : q <= r})]

\* The awaits of call i that have thrown out of the function: resumed with a
\* rejection, outside a try statement.
Escaped(i) ==
    {r \in AwaitsOf(i) : /\ reacts[r].fired = 1
                          /\ cells[reacts[r].src].st = "Rejected"
                          /\ StepOf(r).k = "await"}

\* The value the last await of call i that was resumed with a fulfillment
\* gave; undefined if there is none.
ValueGot(i) ==
    LET S == {r \in AwaitsOf(i) : reacts[r].fired = 1
                                    /\ cells[reacts[r].src].st = "Fulfilled"}
    IN IF S = {} THEN Nil
       ELSE cells[reacts[CHOOSE r \in S : \A q \in S : q <= r].src].val

Ended(i) == calls[i].pc > Len(calls[i].body)

\* C21: every call of an async function has returned a Promise, and no
\* exception has left a call.  The Promise is pending while the body has not
\* ended; once it has ended, the Promise is fulfilled with the value returned
\* if the body returned, and rejected with the exception if the body threw
\* it, in the first segment or a later one, or if an await outside a try
\* statement threw the rejection value of its Promise.  The body ends once
\* nothing is left to run and it is not paused on a pending Promise.
C21_ResultIsAPromise ==
    /\ uncaught = <<>>
    /\ \A i \in Calls :
           LET out == cells[calls[i].out]
               last == calls[i].body[Len(calls[i].body)]
           IN /\ calls[i].out \in Cells
              /\ ~Ended(i) => out.st = "Pending"
              /\ Ended(i) =>
                     IF Escaped(i) # {}
                     THEN /\ out.st = "Rejected"
                          /\ \A r \in Escaped(i) : out.val = cells[reacts[r].src].val
                     ELSE IF last.k = "throw"
                     THEN out.st = "Rejected" /\ out.val = last.a
                     ELSE /\ out.st = "Fulfilled"
                          /\ out.val = (IF last.k = "ret" THEN last.a ELSE ValueGot(i))
              /\ (Quiet /\ ~Ended(i)) =>
                     calls[i].waits # 0 /\ cells[calls[i].waits].st = "Pending"

\* Three calls: one returned the value its await gave, one threw in the first
\* segment, and one awaited a Promise rejected with ERROR outside a try
\* statement; the results are fulfilled with yes! and rejected with Problem!
\* and ERROR.
C21_Witness ==
    \E i \in Calls, j \in Calls, l \in Calls :
        /\ calls[i].body = <<AwaitStep(Plain("yes!")), RetGot>>
        /\ calls[i].segments = 2
        /\ cells[calls[i].out].st = "Fulfilled"
        /\ cells[calls[i].out].val = Plain("yes!")
        /\ calls[j].body = <<Throw("Problem!")>>
        /\ calls[j].segments = 1
        /\ cells[calls[j].out].st = "Rejected"
        /\ cells[calls[j].out].val = Plain("Problem!")
        /\ Len(calls[l].body) = 2 /\ Escaped(l) # {}
        /\ cells[calls[l].out].st = "Rejected"
        /\ cells[calls[l].out].val = Plain("ERROR")

\* The awaits that have been resumed.
Resumed == {r \in Reacts : reacts[r].typ = "await" /\ reacts[r].fired = 1}

\* The number of awaits of r's call resumed up to r with state st.
ResumedWith(r, st) ==
    Cardinality({q \in AwaitsOf(reacts[r].idx) :
                    q <= r /\ reacts[q].fired = 1 /\ cells[reacts[q].src].st = st})

\* C22: an await resumed with a fulfillment gives the fulfillment value, and
\* the code after it is reached (a function that returns the value of its
\* await is fulfilled with it).  An await resumed with a rejection throws the
\* rejection value: inside a try statement the catch block receives it, the
\* code after the await in the try block is not reached, the function goes
\* on after the statement and its result is not rejected with that value;
\* outside a try statement the result is rejected with it.
C22_AwaitInjects ==
    \A r \in Resumed :
        LET i == reacts[r].idx
            src == cells[reacts[r].src]
            out == cells[calls[i].out]
            next == calls[i].body[calls[i].pc - 1]
        IN /\ reacts[r].arg = src.val
           /\ calls[i].passed = Cardinality({q \in AwaitsOf(i) :
                                    reacts[q].fired = 1
                                    /\ cells[reacts[q].src].st = "Fulfilled"})
           /\ src.st = "Fulfilled" =>
                  /\ calls[i].got[ResumedWith(r, "Fulfilled")] = src.val
                  /\ (StepOf(r) = calls[i].body[Len(calls[i].body) - 1]
                       /\ calls[i].body[Len(calls[i].body)] = RetGot) =>
                          out.st = "Fulfilled" /\ out.val = src.val
           /\ (src.st = "Rejected" /\ StepOf(r).k = "tryawait") =>
                  /\ Len(calls[i].caught) >= 1
                  /\ calls[i].caught[Len(calls[i].caught)] = src.val
                  /\ ~(out.st = "Rejected" /\ out.val = src.val)
                  /\ calls[i].segments = 2
                  /\ Ended(i)
                  /\ calls[i].body[2] = RetGot =>
                         out.st = "Fulfilled" /\ out.val = Nil
                  /\ calls[i].body[2].k = "throw" =>
                         out.st = "Rejected" /\ out.val = calls[i].body[2].a
           /\ (src.st = "Rejected" /\ StepOf(r).k = "await") =>
                  /\ calls[i].caught = <<>>
                  /\ out.st = "Rejected" /\ out.val = src.val

\* Two calls awaited in a try statement Promises that were pending: one was
\* fulfilled with abc, and the call returned abc; the other was rejected with
\* ERROR, the catch block received ERROR, the code after the await was not
\* reached, and the result is fulfilled.
C22_Witness ==
    \E i \in Calls, j \in Calls :
        /\ calls[i].body[1].k = "tryawait" /\ calls[j].body[1].k = "tryawait"
        /\ calls[i].body[2] = RetGot /\ calls[j].body[2] = RetGot
        /\ \E r \in AwaitsOf(i) : ~reacts[r].late /\ reacts[r].fired = 1
        /\ \E r \in AwaitsOf(j) : ~reacts[r].late /\ reacts[r].fired = 1
        /\ calls[i].got = <<Plain("abc")>> /\ calls[i].passed = 1
        /\ cells[calls[i].out].st = "Fulfilled"
        /\ cells[calls[i].out].val = Plain("abc")
        /\ calls[j].caught = <<Plain("ERROR")>> /\ calls[j].passed = 0
        /\ cells[calls[j].out].st = "Fulfilled"

(***************************************************************************)
(* Properties of iteration (SpecIter).                                     *)
(***************************************************************************)
\* What the calls of .next() of iterator it gave, in the order of the calls:
\* the results, and for an async generator the settlement values of the
\* Promises returned (undefined while one is pending).
Steps(it) ==
    IF iters[it].kind = "asyncgenerator"
    THEN [k \in 1..Len(iters[it].results) |-> cells[iters[it].results[k]].val]
    ELSE iters[it].results

IsDone(x) == x.t = "step" /\ x.v.done

\* The values a generator body yields, in order.
Yields(body) ==
    LET at == {k \in 1..Len(body) : body[k].k = "yield"}
        nth[k \in 1..Cardinality(at)] ==
            CHOOSE j \in at : Cardinality({l \in at : l <= j}) = k
    IN [k \in 1..Cardinality(at) |-> body[nth[k]].a]

\* C23: once a call of .next() has reported done: true, every later call on
\* the same iterator reports { value: undefined, done: true }: no element
\* comes back, and the iterator does not become active again.
C23_ExhaustionIsPermanent ==
    /\ \A it \in Iters :
          \A k \in 1..Len(Steps(it)), l \in 1..Len(Steps(it)) :
              (k < l /\ IsDone(Steps(it)[k])) =>
                  Steps(it)[l] = IterationResult(Nil, TRUE)
    /\ \A it \in Iters :
          (iters[it].kind = "array" /\ iters[it].done) =>
              \E k \in 1..Len(Steps(it)) : IsDone(Steps(it)[k])

\* .next() was called twice after the call that reported the end: on the
\* iterator of ["a", "b"] and on the generator object.
C23_Witness ==
    \E it \in Iters, g \in Iters :
        /\ iters[it].kind = "array" /\ iters[g].kind = "generator"
        /\ Len(iters[it].items) = 2
        /\ Len(iters[it].results) = 4 /\ Len(iters[g].results) = 4
        /\ iters[it].results[2] = IterationResult(Plain("b"), FALSE)
        /\ iters[g].results[2] = IterationResult(Plain("b"), FALSE)
        /\ IsDone(iters[it].results[3]) /\ IsDone(iters[it].results[4])
        /\ IsDone(iters[g].results[3]) /\ IsDone(iters[g].results[4])

\* The result the k-th call of .next() gives on an iterator over q.
StepAt(q, k) ==
    IF k <= Len(q) THEN IterationResult(q[k], FALSE) ELSE IterationResult(Nil, TRUE)

AsyncGenerators == {it \in Iters : iters[it].kind = "asyncgenerator"}

\* The calls of the async function that awaits the results of iterator it.
ConsumersOf(it) ==
    {i \in 1..Len(calls) : calls[i].body[1] = AwaitNext(it)}

\* C24: the k-th call of .next() on an iterator over n elements gives
\* { value: the k-th element, done: false } for k <= n, and
\* { value: undefined, done: true } for k = n + 1.  The .next() of an async
\* generator returns a Promise, which is fulfilled with that result and
\* never rejected; the Promises are fulfilled in the order of the calls, all
\* of them once no job is left; an async function that awaits each call, and
\* is alone in calling, gets the results in that order.
C24_StepsInOrder ==
    /\ \A it \in Iters :
          iters[it].kind = "array" =>
              \A k \in 1..Len(iters[it].results) :
                  k <= Len(iters[it].items) + 1 =>
                      iters[it].results[k] = StepAt(iters[it].items, k)
    /\ \A it \in AsyncGenerators :
          LET ps == iters[it].results
          IN /\ \A k \in 1..Len(ps) :
                  /\ ps[k] \in Cells
                  /\ cells[ps[k]].st \in {"Pending", "Fulfilled"}
                  /\ cells[ps[k]].st = "Fulfilled" =>
                         /\ k <= Len(iters[it].items) + 1 =>
                                cells[ps[k]].val = StepAt(iters[it].items, k)
                         /\ \A l \in 1..(k - 1) : cells[ps[l]].st = "Fulfilled"
                  /\ Quiet => cells[ps[k]].st = "Fulfilled"
             /\ \A k \in 1..Len(ps), l \in 1..Len(ps) : k # l => ps[k] # ps[l]
             /\ \A i \in ConsumersOf(it) :
                    Cardinality(AwaitsOf(i)) = Len(ps) =>
                        \A k \in 1..Len(calls[i].got) :
                            calls[i].got[k] = StepAt(iters[it].items, k)

\* The iterator of ["a", "b"] was called three times, and the async function
\* that awaits every .next() of the async generator over ["a", "b"] got the
\* three results, the last with done: true, and has returned.
C24_Witness ==
    \E it \in Iters, g \in AsyncGenerators : \E i \in ConsumersOf(g) :
        /\ iters[it].kind = "array"
        /\ iters[it].results = <<IterationResult(Plain("a"), FALSE),
                                 IterationResult(Plain("b"), FALSE),
                                 IterationResult(Nil, TRUE)>>
        /\ Len(iters[g].results) = 3
        /\ calls[i].got = <<IterationResult(Plain("a"), FALSE),
                            IterationResult(Plain("b"), FALSE),
                            IterationResult(Nil, TRUE)>>
        /\ cells[calls[i].out].st = "Fulfilled"

\* The statement of the body a generator that has answered k calls of
\* .next() goes on at: the one after its k-th yield, or the end of the body.
PcAfter(body, k) ==
    LET at == {j \in 1..Len(body) : body[j].k = "yield"}
    IN IF k = 0 THEN 1
       ELSE IF k > Cardinality(at) THEN Len(body) + 1
       ELSE 1 + CHOOSE j \in at : Cardinality({l \in at : l <= j}) = k

\* The lines the body writes between statement a and statement b.
Written(body, a, b) ==
    LET at == {j \in a..(b - 1) : body[j].k = "log"}
        nth[k \in 1..Cardinality(at)] ==
            CHOOSE j \in at : Cardinality({l \in at : l <= j}) = k
    IN [k \in 1..Cardinality(at) |-> body[nth[k]].a]

Generators == {it \in Iters : iters[it].kind = "generator"}

\* C25: the call of a generator function runs nothing of its body: location
\* and the console stay as they are (location is 0 as long as no .next() was
\* called).  The k-th call of .next() runs the body from the place the
\* previous call left it at to the next yield and no further: it writes the
\* line of that segment only, location is k after it, and its result is the
\* operand of the yield with done: false; the call that runs the last
\* segment to the end of the body gives { value: undefined, done: true }.
C25_OneSegmentPerPull ==
    /\ []((\A it \in Generators : iters[it].results = <<>>) => location = 0)
    /\ []( \A it \in Generators :
              /\ iters[it].pc = PcAfter(iters[it].body, Len(iters[it].results))
              /\ iters[it].state = "completed" <=> iters[it].pc > Len(iters[it].body))
    /\ [][\A it \in 1..Len(iters') :
             iters'[it].kind = "generator" =>
                 IF it > Len(iters)
                 THEN /\ location' = location /\ console' = console
                      /\ iters'[it].pc = 1 /\ iters'[it].results = <<>>
                 ELSE LET k == Len(iters'[it].results)
                          body == iters[it].body
                      IN k # Len(iters[it].results) =>
                          /\ k = Len(iters[it].results) + 1
                          /\ console' = console \o
                                 Written(body, iters[it].pc, iters'[it].pc)
                          /\ iters'[it].pc = PcAfter(body, k)
                          /\ k <= Len(Yields(body)) + 1 =>
                                 /\ location' = k
                                 /\ Len(console') = Len(console) + 1
                          /\ k > Len(Yields(body)) + 1 =>
                                 location' = location /\ console' = console
                          /\ iters'[it].results[k] = StepAt(Yields(body), k)]_vars

\* A generator object was called three times, location is 3 and its three
\* lines are written, while a second generator object has not been called.
C25_Witness ==
    \E g \in Generators, h \in Generators :
        /\ iters[g].results = <<IterationResult(Plain("a"), FALSE),
                                IterationResult(Plain("b"), FALSE),
                                IterationResult(Nil, TRUE)>>
        /\ iters[h].results = <<>> /\ iters[h].pc = 1
        /\ location = 3
        /\ console = <<Plain("<1>"), Plain("<2>"), Plain("<3>")>>

(***************************************************************************)
(* Properties of the job queue (SpecFifo) and of the event loop (SpecLoop). *)
(***************************************************************************)
\* Sequence q begins with sequence p.
IsPrefix(p, q) == Len(p) <= Len(q) /\ SubSeq(q, 1, Len(p)) = p

\* The reactions whose job runs in the step.
Running == {r \in Reacts : reacts'[r].fired # reacts[r].fired}

\* The Promises settled in the step.
Settling == {c \in Cells : cells[c].st = "Pending" /\ cells'[c].st # "Pending"}

\* C26: the job queue is first in, first out.  The job that runs is the first
\* of the queue; the jobs a step makes ready are put behind those that wait,
\* whose order stays, so the reactions of an earlier settlement run before
\* those of a later one; and the reactions of one Promise, made ready by its
\* settlement, are put into the queue together, in the order of their
\* registration, and so run in that order.
C26_FirstInFirstOut ==
    /\ [][/\ Cardinality(Running) <= 1
          /\ \A r \in Running :
                /\ mq # <<>> /\ Head(mq).k = "react" /\ Head(mq).a = r
                /\ IsPrefix(Tail(mq), mq')
          /\ Running = {} => IsPrefix(mq, mq')
          /\ \A c \in Settling :
                \E a \in 1..(Len(mq') + 1) :
                    /\ a + Len(cells[c].rs) <= Len(mq') + 1
                    /\ a > Len(mq) - Cardinality(Running)
                    /\ \A i \in 1..Len(cells[c].rs) :
                          /\ mq'[a + i - 1].k = "react"
                          /\ mq'[a + i - 1].a = cells[c].rs[i]]_vars
    /\ [](\A c \in Cells : \A i \in 1..Len(cells[c].rs), j \in 1..Len(cells[c].rs) :
              i < j => cells[c].rs[i] < cells[c].rs[j])
    /\ [](\A i \in 1..Len(mq), j \in 1..Len(mq) :
              (i < j /\ mq[i].k = "react" /\ mq[j].k = "react"
                     /\ reacts[mq[i].a].src = reacts[mq[j].a].src) =>
                  mq[i].a < mq[j].a)
    /\ [](\A r \in Reacts, q \in Reacts :
              (r < q /\ reacts[r].src = reacts[q].src /\ reacts[q].fired = 1) =>
                  reacts[r].fired = 1)

\* Two callbacks registered on one pending Promise and, between them, one on
\* a Promise settled later have run: the first two, made ready by the earlier
\* settlement, in the order of their registration.
C26_Witness ==
    \E r \in Reacts, q \in Reacts, o \in Reacts :
        /\ r < o /\ o < q
        /\ reacts[r].src = reacts[q].src /\ reacts[o].src # reacts[r].src
        /\ ~reacts[r].late /\ ~reacts[q].late /\ ~reacts[o].late
        /\ reacts[r].fired = 1 /\ reacts[q].fired = 1 /\ reacts[o].fired = 0
        /\ JobsOf(o) # {}
        /\ Len(console) = 2

\* The lines of the console written by callbacks: of setTimeout, of .then().
CallbackLines == {i \in 1..Len(console) : console[i] = Plain("callback")}
ThenLines == {i \in 1..Len(console) : console[i] = Plain(".then()")}

\* C27: one piece of work runs at a time, to its end.  While the script runs,
\* no Promise job and no callback of setTimeout runs: those that become ready
\* wait in their queues, behind the ones that wait already.  A step of the
\* event loop runs one job, once, or one callback, and a callback only when
\* no job is left.  setTimeout with delay 0 does not call its callback: the
\* callback runs after the script that called setTimeout has ended, so that
\* its line is written after every line of the script (start, end,
\* callback).
C27_RunToCompletion ==
    /\ [][/\ Cardinality(Running) <= 1
          /\ \A r \in Reacts : reacts'[r].fired <= reacts[r].fired + 1
          /\ Len(console') <= Len(console) + 1
          /\ cur = "task" =>
                /\ Running = {}
                /\ IsPrefix(mq, mq') /\ IsPrefix(timers, timers')
                /\ CallbackLines' = CallbackLines /\ ThenLines' = ThenLines
          /\ Len(timers') > Len(timers) =>
                cur = "task" /\ console' = console
          /\ Running # {} =>
                cur = "idle" /\ cur' = "idle" /\ timers' = timers
                /\ ScriptLines' = ScriptLines /\ CallbackLines' = CallbackLines
          /\ timers' # timers /\ cur = "idle" =>
                /\ mq = <<>> /\ mq' = <<>> /\ Running = {}
                /\ timers' = Tail(timers)
                /\ console' = Append(console, Head(timers).a)]_vars
    /\ [](cur = "task" => CallbackLines = {} /\ ThenLines = {})
    /\ [](\A i \in ScriptLines, j \in CallbackLines \cup ThenLines : i < j)

\* The script of the example: start, setTimeout, end; the callback has run,
\* after a Promise job the script had left.
C27_Witness ==
    /\ console = <<Plain("start"), Plain("end"), Plain(".then()"), Plain("callback")>>
    /\ timers = <<>>
    /\ Quiet

(***************************************************************************)
(* Properties of the two runs (SpecTiming).                                *)
(***************************************************************************)
\* Both runs have ended: the script and every job.
BothQuiet == cur = "idle" /\ mq = <<>> /\ twin # <<>> /\ twin.mq = <<>>

\* The lines the callbacks of Promise 1 write.
RegLines == {Plain(RegLabels[k]) : k \in 1..Len(RegLabels)}

\* The lines of q that are in S, in their order.
Restrict(q, S) == SelectSeq(q, LAMBDA x : x \in S)

\* The number of times line x was written.
Count(q, x) == Cardinality({i \in 1..Len(q) : q[i] = x})

\* The k-th reaction registered on Promise 1 in run W.
NthReg(W, k) ==
    CHOOSE r \in RegsOf(W) : Cardinality({q \in RegsOf(W) : q <= r}) = k

\* Every callback was called once in each run, with the same value and for
\* the same state.
SamePayloadOnce ==
    /\ Cardinality(RegsOf(World)) = Cardinality(RegsOf(twin))
    /\ \A k \in 1..Cardinality(RegsOf(World)) :
          LET a == reacts[NthReg(World, k)]
              b == twin.reacts[NthReg(twin, k)]
          IN /\ a.fired = 1 /\ b.fired = 1
             /\ a.arg = b.arg /\ a.arg = cells[1].val
             /\ a.ran = b.ran /\ a.ran = cells[1].st
             /\ a.onF = b.onF
             /\ Count(console, a.onF.a) = 1
             /\ Count(twin.console, a.onF.a) = 1

\* In the second run another work item became ready after the settlement
\* and before a registration.
Gap ==
    \E o \in 1..Len(twin.reacts), r \in RegsOf(twin) :
        /\ twin.reacts[o].src # 1
        /\ twin.mark < o /\ o < r

\* C28 as stated: when both runs have ended, every callback was called once
\* in each, with the same value, and the callbacks of all work items ran in
\* the same order in both.
C28_AsStated ==
    BothQuiet => SamePayloadOnce /\ console = twin.console

\* C28, amended: every callback was called once in each run, with the same
\* value; the callbacks of the Promise ran in the same order among
\* themselves, and so did the other work items; the order of all work items
\* is the same in both runs unless another work item became ready between
\* the settlement and a late registration, and differs if one did: that work
\* item runs before the callback registered late and after the one
\* registered early.
C28_TimingAndOrder ==
    BothQuiet =>
        /\ SamePayloadOnce
        /\ Restrict(console, RegLines) = Restrict(twin.console, RegLines)
        /\ Restrict(console, {Plain("other")}) = Restrict(twin.console, {Plain("other")})
        /\ ~Gap => console = twin.console
        /\ Gap => console # twin.console

\* A callback was registered before the settlement in one run and after it
\* in the other, another work item became ready in between, and both runs
\* have ended: the callback ran first in one run and last in the other.
C28_Witness ==
    /\ BothQuiet
    /\ Gap
    /\ console = <<Plain("f1"), Plain("other")>>
    /\ twin.console = <<Plain("other"), Plain("f1")>>
    /\ reacts[1].arg = Plain("abc") /\ twin.reacts[2].arg = Plain("abc")

(***************************************************************************)
(* Properties of the resumption of async functions (SpecFrame).            *)
(***************************************************************************)
Awaits == {r \in Reacts : reacts[r].typ = "await"}

\* C29: a paused async function is resumed once for each await, and only
\* after the Promise it awaits is settled.  While that Promise is pending,
\* the await has no job and has not been resumed, the function waits for
\* that Promise, none of its later segments has run and its result is
\* pending; once the Promise is settled the await has one job, waiting or
\* run, and further calls of the resolving functions add none.
C29_ResumedOnce ==
    /\ [](\A r \in Awaits :
            LET i == reacts[r].idx
                src == cells[reacts[r].src]
            IN /\ reacts[r].fired <= 1
               /\ IF src.st = "Pending"
                  THEN /\ reacts[r].fired = 0 /\ JobsOf(r) = {}
                       /\ calls[i].waits = reacts[r].src
                       /\ cells[calls[i].out].st = "Pending"
                       /\ ~Ended(i)
                       /\ \A q \in AwaitsOf(i) : q <= r
                  ELSE reacts[r].fired + Cardinality(JobsOf(r)) = 1)
    /\ [](\A i \in Calls :
            /\ calls[i].resumed =
                   Cardinality({r \in AwaitsOf(i) : reacts[r].fired = 1})
            /\ calls[i].segments = calls[i].resumed + 1
            /\ calls[i].resumed <= Len(calls[i].body) - 1)
    /\ [][\A r \in Awaits :
             reacts'[r].fired # reacts[r].fired =>
                 /\ cells[reacts[r].src].st # "Pending"
                 /\ reacts[r].fired = 0
                 /\ calls'[reacts[r].idx].resumed = calls[reacts[r].idx].resumed + 1]_vars

\* One function was resumed once although the producer of the Promise it
\* awaited called a resolving function again after the resumption; another
\* waits for a Promise that is still pending when no job is left.
C29_Witness ==
    \E r \in Awaits, q \in Awaits :
        /\ reacts[r].fired = 1 /\ ~reacts[r].late
        /\ cells[reacts[r].src].again
        /\ calls[reacts[r].idx].resumed = 1
        /\ cells[calls[reacts[r].idx].out].st = "Fulfilled"
        /\ cells[reacts[q].src].st = "Pending"
        /\ calls[reacts[q].idx].resumed = 0
        /\ Quiet

(***************************************************************************)
(* Properties of .then() with two callbacks (SpecBoth).                    *)
(***************************************************************************)
\* The reactions of .then(onFulfilled, onRejected) that have run.
FiredBoth ==
    {r \in Reacts : /\ reacts[r].typ = "then" /\ reacts[r].fired = 1
                    /\ reacts[r].onF.k # "none" /\ reacts[r].onR.k # "none"}

\* The reactions of FiredBoth whose callback for state st writes a line.
Writers(st) ==
    {r \in FiredBoth : /\ cells[reacts[r].src].st = st
                       /\ (IF st = "Fulfilled" THEN reacts[r].onF ELSE reacts[r].onR).k = "log"}

\* C30: of the two callbacks of one .then(), the job calls the one that is
\* for the state of the source, once, and not the other: what the reaction
\* returned or threw is what that callback returns or throws, and the lines
\* written are those of the callbacks chosen.  An exception of the
\* fulfillment callback rejects the Promise .then() returned and is not
\* handed to the rejection callback of the same .then().
C30_ExactlyOneHandler ==
    /\ \A r \in Reacts : reacts[r].fired = 0 => reacts[r].ran = ""
    /\ \A r \in FiredBoth :
          LET src == cells[reacts[r].src]
              h == IF src.st = "Fulfilled" THEN reacts[r].onF ELSE reacts[r].onR
              res == cells[reacts[r].res]
          IN /\ reacts[r].ran = src.st
             /\ reacts[r].arg = src.val
             /\ reacts[r].thrown = (h.k = "throw")
             /\ h.k = "throw" =>
                    /\ reacts[r].out = h.a
                    /\ res.st = "Rejected" /\ res.val = h.a
             /\ h.k = "ret" =>
                    /\ reacts[r].out = h.a
                    /\ res.st = "Fulfilled" /\ res.val = h.a
             /\ h.k = "log" => res.st = "Fulfilled" /\ res.val = Nil
    /\ Count(console, Plain("onFulfilled")) = Cardinality(Writers("Fulfilled"))
    /\ Count(console, Plain("onRejected")) = Cardinality(Writers("Rejected"))

\* The fulfillment callback of a .then() with two callbacks threw: the
\* Promise returned is rejected with the exception, and the rejection
\* callback, which would have returned a value, was not called.  On a
\* rejected Promise the rejection callback of such a .then() was called.
C30_Witness ==
    \E r \in FiredBoth, q \in FiredBoth :
        /\ reacts[r].onF = Throw("Problem!") /\ reacts[r].onR = Ret("recovered")
        /\ reacts[r].ran = "Fulfilled" /\ reacts[r].thrown
        /\ cells[reacts[r].res].st = "Rejected"
        /\ cells[reacts[r].res].val = Plain("Problem!")
        /\ reacts[q].onR = Ret("recovered")
        /\ reacts[q].ran = "Rejected"
        /\ cells[reacts[q].res].st = "Fulfilled"
        /\ cells[reacts[q].res].val = Plain("recovered")

====
